---- MODULE Spec2Model ----
(***************************************************************************)
(* A model of the domain tree of pyjac/core/array_creator.py: the creator  *)
(* (array descriptor), tree_node, domain_transform and MapStore classes.   *)
(*                                                                         *)
(* Python objects are named by identity.  A creator has no __eq__ and no   *)
(* __hash__, so `x.domain == domain`, `domain in domain_to_nodes` and      *)
(* `mapping == other.mapping` all compare object identity: the model's     *)
(* creator ids.  tree_node.__init__ asserts that its domain has no node    *)
(* yet, so a node is named by the id of the creator it wraps.              *)
(*                                                                         *)
(* Optional values: a missing string (iname, insn, parent) is the string   *)
(* NoneStr, a missing number, array or record is the empty tuple <<>> and  *)
(* a present one is the one-element tuple <<x>>.                           *)
(***************************************************************************)
EXTENDS Integers, Sequences, FiniteSets, TLC

VARIABLES
    pc,                    \* "new" (MapStore not built yet) | "idle" | "failed"
    knl_type,              \* loopy_opts.knl_type: "map" | "mask"
    raise_on_final,        \* MapStore.raise_on_final
    name,                  \* creator.name, by creator
    initializer,           \* creator.initializer, by creator (optional array)
    map_domain,            \* MapStore.map_domain (a creator)
    mask_domain,           \* MapStore.mask_domain (a creator)
    tree,                  \* MapStore.tree: the original root node
    nodes,                 \* the tree_node objects constructed so far
    parent,                \* tree_node.parent, by node
    children,              \* tree_node.children, by node
    iname_,                \* tree_node._iname, by node
    insn,                  \* tree_node.insn, by node
    domain_transform_,     \* tree_node.domain_transform, by node
    domain_to_nodes,       \* MapStore.domain_to_nodes: a function creator -> node
    transformed_domains,   \* MapStore.transformed_domains
    taken_transform_names, \* the names MapStore.taken_transform_names holds
    have_input_map,        \* MapStore.have_input_map
    is_finalized,          \* MapStore.is_finalized
    clone,                 \* what MapStore.copy() returned, if it was called
    ret                    \* what the last call returned or raised

vars == <<pc, knl_type, raise_on_final, name, initializer, map_domain,
          mask_domain, tree, nodes, parent, children, iname_, insn,
          domain_transform_, domain_to_nodes, transformed_domains,
          taken_transform_names, have_input_map, is_finalized, clone, ret>>

\* the creators' fields, the tree and the resolver's fields but the flag
resolved == <<name, initializer, map_domain, nodes, parent, children, iname_,
              insn, domain_transform_, domain_to_nodes, transformed_domains,
              taken_transform_names, have_input_map>>

-----------------------------------------------------------------------------
(* Bounds of the inputs *)

\* length of the index arrays the domains are built from
DomLen == 3

\* the index arrays start at 0 .. MaxStart
MaxStart == 1

\* the largest affine offset of a call
MaxOffset == 1

-----------------------------------------------------------------------------
(* Optional values *)

NoneStr == "None"

None == <<>>

Some(x) == <<x>>

Val(o) == o[1]

-----------------------------------------------------------------------------
(* The creators of a run.  "base" and "mask" are handed to the constructor *)
(* as map_domain and mask_domain, "d1" and "d2" are used as domains, "v1"  *)
(* and "v2" are the arrays registered under them.                          *)

\* the copies _add_input_map can make: each is named after the map_domain
\* it copies, with "_map" appended
InputMapCreators == {"base_map", "base_map_map"}

Creators == {"base", "mask", "d1", "d2", "v1", "v2", "a0", "a1", "a2"}
                \cup InputMapCreators

\* the shared loop variable: MapStore's iname argument
var_name == "i"

\* a run of n consecutive indices from a
Run(a, n) == [k \in 1..n |-> a + k - 1]

\* sorted, but the last index skips one: not contiguous
Gap(a) == [k \in 1..DomLen |-> IF k = DomLen THEN a + k ELSE a + k - 1]

\* a run whose second index is swapped for the index after the run: not in
\* increasing order, not contiguous, and yet first + size - 1 = last
Shuffled(a) == [k \in 1..DomLen |-> IF k = 2 THEN a + DomLen ELSE a + k - 1]

\* a mask whose first s slots are the sentinel -1
Masked(s) == [k \in 1..DomLen |-> IF k <= s THEN -1 ELSE k - s - 1]

\* a mask whose last s slots are the sentinel -1
MaskedTail(s) == [k \in 1..DomLen |-> IF k > DomLen - s THEN -1 ELSE k - 1]

Starts == 0..MaxStart

MapBaseArrays ==
    {Run(a, DomLen) : a \in Starts} \cup {Gap(a) : a \in Starts}
        \cup {Shuffled(a) : a \in Starts}

MapDomainArrays ==
    {Run(a, DomLen) : a \in Starts} \cup {Gap(a) : a \in Starts}
        \cup {Run(a, DomLen - 1) : a \in Starts}

MaskDomainArrays ==
    {Run(a, DomLen) : a \in Starts} \cup {Masked(s) : s \in Starts}
        \cup {MaskedTail(s) : s \in Starts}

-----------------------------------------------------------------------------
(* numpy on one-dimensional integer arrays (tuples, indexed from 1) *)

\* np.max(a)
np_max(a) == CHOOSE m \in {a[k] : k \in 1..Len(a)} : \A k \in 1..Len(a) : a[k] <= m

\* np.array_equal(a, b): same shape and same elements
np_array_equal(a, b) == a = b

\* np.where(a != -1)[0]: the 0-based positions that are not the sentinel
np_where_set(a) ==
    SelectSeq([k \in 1..Len(a) |-> k - 1], LAMBDA p : a[p + 1] # -1)

\* a[idx] for an array idx of 0-based positions
np_take(a, idx) == [k \in 1..Len(idx) |-> a[idx[k] + 1]]

\* a - b for arrays of one shape
np_sub(a, b) == [k \in 1..Len(a) |-> a[k] - b[k]]

\* np.arange(n)
np_arange(n) == [k \in 1..n |-> k - 1]

-----------------------------------------------------------------------------
(* domain_transform and the transforms between two domains *)

\* domain_transform(mapping, affine)
domain_transform(mapping, affine) == [mapping |-> mapping, affine |-> affine]

\* domain_transform.__eq__: mapping is a creator, compared by identity
domain_transform_eq(a, b) == a.mapping = b.mapping /\ a.affine = b.affine

\* the (mapping, affine) pair the _get_*_transform methods return
Transform(mapping, affine) == [mapping |-> mapping, affine |-> affine]

\* MapStore._is_map
_is_map == knl_type = "map"

\* variant of _get_map_transform that knows no constant offset: arrays that
\* differ are a lookup
_get_map_transform_no_affine(dcheck, ncheck, new_domain) ==
    IF Len(dcheck) = Len(ncheck) /\ np_array_equal(dcheck, ncheck)
    THEN Transform(NoneStr, None)
    ELSE Transform(new_domain, None)

\* variant of _get_map_transform that compares the entries the two arrays
\* have in common and not their lengths
_get_map_transform_on_overlap(dcheck, ncheck, new_domain) ==
    LET common == IF Len(dcheck) < Len(ncheck) THEN Len(dcheck) ELSE Len(ncheck)
    IN  IF dcheck = ncheck THEN Transform(NoneStr, None)
        ELSE IF \A k \in 1..common : ncheck[k] - dcheck[k] = ncheck[1] - dcheck[1]
             THEN Transform(new_domain, Some(ncheck[1] - dcheck[1]))
        ELSE Transform(new_domain, None)

\* variant of _get_map_transform that takes the offset the other way round
_get_map_transform_reversed(dcheck, ncheck, new_domain) ==
    LET diff == np_sub(dcheck, ncheck)
    IN  IF Len(dcheck) # Len(ncheck) THEN Transform(new_domain, None)
        ELSE IF np_array_equal(dcheck, ncheck) THEN Transform(NoneStr, None)
        ELSE IF \A k \in 1..Len(diff) : diff[k] = diff[1]
             THEN Transform(new_domain, Some(diff[1]))
        ELSE Transform(new_domain, None)

\* MapStore._get_map_transform(domain, new_domain): dcheck and ncheck are the
\* initializers of domain and of new_domain
_get_map_transform(dcheck, ncheck, new_domain) ==
    LET diff == np_sub(ncheck, dcheck)
    IN  IF Len(dcheck) # Len(ncheck) THEN Transform(new_domain, None)
        ELSE IF np_array_equal(dcheck, ncheck) THEN Transform(NoneStr, None)
        ELSE IF \A k \in 1..Len(diff) : diff[k] = diff[1]
             THEN Transform(new_domain, Some(diff[1]))
        ELSE Transform(new_domain, None)

\* MapStore._get_mask_transform(domain, new_domain): dcheck and ncheck are the
\* initializers of domain and of new_domain.  diffs[0] of two empty supports
\* raises in the code: no input array is all sentinel.
_get_mask_transform(dcheck, ncheck, new_domain) ==
    LET dset == np_where_set(dcheck)
        nset == np_where_set(ncheck)
        diffs == np_sub(nset, dset)
    IN  IF np_array_equal(dcheck, ncheck) THEN Transform(NoneStr, None)
        ELSE IF /\ Len(dset) = Len(nset)
                /\ \A k \in 1..Len(diffs) : diffs[k] = diffs[1]
                /\ np_array_equal(np_take(ncheck, nset), np_take(dcheck, dset))
             THEN Transform(new_domain, Some(diffs[1]))
        ELSE Transform(new_domain, None)

\* variant of _get_transform that does not compare the arrays for equality:
\* identical arrays are a lookup
_get_transform_no_identity(dcheck, ncheck, new_domain) ==
    IF np_array_equal(dcheck, ncheck) THEN Transform(new_domain, None)
    ELSE IF _is_map THEN _get_map_transform(dcheck, ncheck, new_domain)
    ELSE _get_mask_transform(dcheck, ncheck, new_domain)

\* MapStore._get_transform(base, domain)
_get_transform(dcheck, ncheck, new_domain) ==
    IF _is_map THEN _get_map_transform(dcheck, ncheck, new_domain)
    ELSE _get_mask_transform(dcheck, ncheck, new_domain)

\* MapStore._is_contiguous(domain), on the domain's initializer
_is_contiguous(indicies) ==
    indicies[1] + Len(indicies) - 1 = indicies[Len(indicies)]

\* variant of _check_is_valid_domain that lets an index equal to the mask
\* size pass
_check_is_valid_domain_inclusive(s, domain) ==
    /\ s.name[domain] # NoneStr
    /\ s.initializer[domain] # None
    /\ ~_is_map =>
           np_max(Val(s.initializer[domain]))
               <= Len(Val(s.initializer[mask_domain]))

\* MapStore._check_is_valid_domain(domain), in store s: TRUE when no
\* assertion fails
_check_is_valid_domain(s, domain) ==
    /\ s.name[domain] # NoneStr
    /\ s.initializer[domain] # None
    /\ ~_is_map =>
           np_max(Val(s.initializer[domain]))
               < Len(Val(s.initializer[mask_domain]))

\* Python's truth value of an optional integer: None and 0 are false
Truthy(affine) == affine # None /\ Val(affine) # 0

\* MapStore.generate_transform_instruction(oldname, newname, map_arr, affine)
generate_transform_instruction(oldname, newname, map_arr, affine) ==
    IF affine # None THEN oldname \o " + " \o ToString(Val(affine))
    ELSE "<> " \o newname \o " = " \o map_arr \o "[" \o oldname \o "] {id=index_"
             \o newname \o "}"

\* variant of _get_transform_iname that hands out one name again and again
_get_transform_iname_repeated(taken) == var_name \o "_0"

\* pytools' UniqueNameGenerator called with the loop variable: the first of
\* i_0, i_1, ... that is not taken
_get_transform_iname(taken) ==
    LET n == CHOOSE k \in 0..Cardinality(taken) :
                 /\ (var_name \o "_" \o ToString(k)) \notin taken
                 /\ \A j \in 0..(k - 1) : (var_name \o "_" \o ToString(j)) \in taken
    IN  var_name \o "_" \o ToString(n)

-----------------------------------------------------------------------------
(* The store: the creators, the tree and the MapStore as one value, so that *)
(* a method is an operator from the store before the call to the store     *)
(* after it.  err names the exception the call raised, "" when none.       *)

Store ==
    [name |-> name, initializer |-> initializer, map_domain |-> map_domain,
     nodes |-> nodes, parent |-> parent, children |-> children,
     iname_ |-> iname_, insn |-> insn, domain_transform_ |-> domain_transform_,
     domain_to_nodes |-> domain_to_nodes,
     transformed_domains |-> transformed_domains,
     taken_transform_names |-> taken_transform_names,
     have_input_map |-> have_input_map, is_finalized |-> is_finalized,
     err |-> ""]

\* the variables take the fields of store s
Becomes(s) ==
    /\ name' = s.name
    /\ initializer' = s.initializer
    /\ map_domain' = s.map_domain
    /\ nodes' = s.nodes
    /\ parent' = s.parent
    /\ children' = s.children
    /\ iname_' = s.iname_
    /\ insn' = s.insn
    /\ domain_transform_' = s.domain_transform_
    /\ domain_to_nodes' = s.domain_to_nodes
    /\ transformed_domains' = s.transformed_domains
    /\ taken_transform_names' = s.taken_transform_names
    /\ have_input_map' = s.have_input_map
    /\ is_finalized' = s.is_finalized

\* a call: its arguments, and what it returned (val) or raised (err)
Returned(op, args, val, err) == [op |-> op, args |-> args, val |-> val, err |-> err]

\* d[k] = v on a dict
Put(d, k, v) == [x \in (DOMAIN d) \cup {k} |-> IF x = k THEN v ELSE d[x]]

\* Python's raise
Raise(s, exception) == [s EXCEPT !.err = exception]

-----------------------------------------------------------------------------
(* tree_node *)

\* tree_node.domain: a node is named by the creator it wraps
node_domain(n) == n

\* tree_node.__init__(owner, domain, children, parent, iname) and its
\* __add_to_owner: the node is kept only if the assertion holds
tree_node_init(s, domain, kids, par, iname) ==
    IF domain \in DOMAIN s.domain_to_nodes THEN Raise(s, "AssertionError")
    ELSE [s EXCEPT !.nodes = @ \cup {domain},
                   !.children[domain] = kids,
                   !.parent[domain] = par,
                   !.iname_[domain] = iname,
                   !.insn[domain] = NoneStr,
                   !.domain_transform_[domain] = None,
                   !.domain_to_nodes = Put(@, domain, domain)]

\* tree_node.is_leaf
is_leaf(s, n) == s.children[n] = {} /\ n # tree

\* the iname setter: None takes the parent's iname
set_iname(s, n, value) ==
    IF value = NoneStr
    THEN IF s.parent[n] = NoneStr THEN Raise(s, "AssertionError")
         ELSE [s EXCEPT !.iname_[n] = s.iname_[s.parent[n]]]
    ELSE [s EXCEPT !.iname_[n] = value]

\* tree_node.set_transform(iname, insn, domain_transform)
set_transform(s, n, iname, ins, dt) ==
    LET s1 == set_iname(s, n, iname)
    IN  IF s1.err # "" THEN s1
        ELSE [s1 EXCEPT !.insn[n] = ins, !.domain_transform_[n] = dt]

\* variant of add_child that does not look for a child that is there
add_child_always_new(s, self, domain) ==
    LET s1 == tree_node_init(s, domain, {}, self, NoneStr)
    IN  IF s1.err # "" THEN [s |-> s1, child |-> NoneStr]
        ELSE [s |-> [s1 EXCEPT
                        !.children[self] = @ \cup {domain},
                        !.domain_to_nodes = Put(@, node_domain(self), self)],
              child |-> domain]

\* tree_node.add_child(domain): the store after the call and the child
add_child(s, self, domain) ==
    IF \E x \in s.children[self] : node_domain(x) = domain
    THEN [s |-> s, child |-> domain]
    ELSE LET s1 == tree_node_init(s, domain, {}, self, NoneStr)
         IN  IF s1.err # "" THEN [s |-> s1, child |-> NoneStr]
             ELSE [s |-> [s1 EXCEPT
                             !.children[self] = @ \cup {domain},
                             !.domain_to_nodes = Put(@, node_domain(self), self)],
                   child |-> domain]

-----------------------------------------------------------------------------
(* MapStore: construction and registration *)

\* variant of __init__ that gives the root no iname
MapStore_init_no_iname(s) ==
    IF ~(_check_is_valid_domain(s, s.map_domain)
            /\ _check_is_valid_domain(s, mask_domain))
    THEN Raise(s, "AssertionError")
    ELSE LET base == IF knl_type = "map" THEN s.map_domain ELSE mask_domain
             s1 == tree_node_init(
                       [s EXCEPT !.domain_to_nodes = <<>>,
                                 !.transformed_domains = {}],
                       base, {}, NoneStr, NoneStr)
         IN  [s1 EXCEPT !.domain_to_nodes = Put(@, base, base),
                        !.taken_transform_names = {var_name},
                        !.have_input_map = FALSE,
                        !.is_finalized = FALSE]

\* MapStore.__init__(loopy_opts, map_domain, mask_domain, iname = 'i')
MapStore_init(s) ==
    IF ~(_check_is_valid_domain(s, s.map_domain)
            /\ _check_is_valid_domain(s, mask_domain))
    THEN Raise(s, "AssertionError")
    ELSE LET base == IF knl_type = "map" THEN s.map_domain ELSE mask_domain
             s1 == tree_node_init(
                       [s EXCEPT !.domain_to_nodes = <<>>,
                                 !.transformed_domains = {}],
                       base, {}, NoneStr, var_name)
         IN  [s1 EXCEPT !.domain_to_nodes = Put(@, base, base),
                        !.taken_transform_names = {var_name},
                        !.have_input_map = FALSE,
                        !.is_finalized = FALSE]

\* variant of check_and_add_transform that hangs the variable on the root
\* and not on the node of its domain
check_and_add_transform_at_root(s, variable, domain) ==
    IF s.is_finalized /\ raise_on_final THEN Raise(s, "Exception")
    ELSE IF ~_check_is_valid_domain(s, domain) THEN Raise(s, "AssertionError")
    ELSE LET a == IF domain \in DOMAIN s.domain_to_nodes
                  THEN [s |-> s, child |-> s.domain_to_nodes[domain]]
                  ELSE add_child(s, tree, domain)
         IN  IF a.s.err # "" THEN a.s
             ELSE add_child(a.s, tree, variable).s

\* variant of check_and_add_transform that refuses a finalized store whatever
\* raise_on_final is
check_and_add_transform_always_strict(s, variable, domain) ==
    IF s.is_finalized THEN Raise(s, "Exception")
    ELSE IF ~_check_is_valid_domain(s, domain) THEN Raise(s, "AssertionError")
    ELSE LET a == IF domain \in DOMAIN s.domain_to_nodes
                  THEN [s |-> s, child |-> s.domain_to_nodes[domain]]
                  ELSE add_child(s, tree, domain)
         IN  IF a.s.err # "" THEN a.s
             ELSE add_child(a.s, a.child, variable).s

\* MapStore.check_and_add_transform(variable, domain)
check_and_add_transform(s, variable, domain) ==
    IF s.is_finalized /\ raise_on_final THEN Raise(s, "Exception")
    ELSE IF ~_check_is_valid_domain(s, domain) THEN Raise(s, "AssertionError")
    ELSE LET a == IF domain \in DOMAIN s.domain_to_nodes
                  THEN [s |-> s, child |-> s.domain_to_nodes[domain]]
                  ELSE add_child(s, tree, domain)
         IN  IF a.s.err # "" THEN a.s
             ELSE add_child(a.s, a.child, variable).s

-----------------------------------------------------------------------------
(* MapStore.finalize *)

\* variant of _add_input_map that leaves the children it moves in the old
\* base's set of children as well
_add_input_map_keeps_children(s) ==
    LET new_creator_name == s.name[s.map_domain] \o "_map"
        new_map_domain == new_creator_name
        arange == np_arange(Len(Val(s.initializer[s.map_domain])))
        s1 == [s EXCEPT !.name[new_map_domain] = new_creator_name,
                        !.initializer[new_map_domain] = Some(arange)]
        s2 == tree_node_init(s1, new_map_domain, {tree}, NoneStr, var_name)
        s3 == set_iname([s2 EXCEPT !.parent[tree] = new_map_domain],
                        tree, NoneStr)
        s4 == [s3 EXCEPT !.map_domain = new_map_domain,
                         !.domain_to_nodes =
                             Put(@, new_map_domain, new_map_domain)]
        moved == {child \in s4.children[tree] :
                     /\ ~is_leaf(s4, child)
                     /\ _get_map_transform(
                            arange, Val(s4.initializer[node_domain(child)]),
                            node_domain(child)).mapping = NoneStr}
    IN  IF s2.err # "" THEN s2
        ELSE [s4 EXCEPT
                 !.parent = [n \in Creators |->
                                IF n \in moved THEN new_map_domain ELSE @[n]],
                 !.children[new_map_domain] = @ \cup moved,
                 !.have_input_map = TRUE]

\* variant of _add_input_map that leaves map_domain on the old base
_add_input_map_keeps_map_domain(s) ==
    LET new_creator_name == s.name[s.map_domain] \o "_map"
        new_map_domain == new_creator_name
        arange == np_arange(Len(Val(s.initializer[s.map_domain])))
        s1 == [s EXCEPT !.name[new_map_domain] = new_creator_name,
                        !.initializer[new_map_domain] = Some(arange)]
        s2 == tree_node_init(s1, new_map_domain, {tree}, NoneStr, var_name)
        s3 == set_iname([s2 EXCEPT !.parent[tree] = new_map_domain],
                        tree, NoneStr)
        s4 == [s3 EXCEPT !.domain_to_nodes =
                             Put(@, new_map_domain, new_map_domain)]
    IN  IF s2.err # "" THEN s2 ELSE [s4 EXCEPT !.have_input_map = TRUE]

\* variant of _add_input_map that also moves the children whose array is
\* the new base's shifted by a constant
_add_input_map_moves_affine(s) ==
    LET new_creator_name == s.name[s.map_domain] \o "_map"
        new_map_domain == new_creator_name
        arange == np_arange(Len(Val(s.initializer[s.map_domain])))
        s1 == [s EXCEPT !.name[new_map_domain] = new_creator_name,
                        !.initializer[new_map_domain] = Some(arange)]
        s2 == tree_node_init(s1, new_map_domain, {tree}, NoneStr, var_name)
        s3 == set_iname([s2 EXCEPT !.parent[tree] = new_map_domain],
                        tree, NoneStr)
        s4 == [s3 EXCEPT !.map_domain = new_map_domain,
                         !.domain_to_nodes =
                             Put(@, new_map_domain, new_map_domain)]
        moved == {child \in s4.children[tree] :
                     /\ ~is_leaf(s4, child)
                     /\ LET t == _get_map_transform(
                                     arange,
                                     Val(s4.initializer[node_domain(child)]),
                                     node_domain(child))
                        IN  t.mapping = NoneStr \/ t.affine # None}
    IN  IF s2.err # "" THEN s2
        ELSE [s4 EXCEPT
                 !.parent = [n \in Creators |->
                                IF n \in moved THEN new_map_domain ELSE @[n]],
                 !.children[tree] = @ \ moved,
                 !.children[new_map_domain] = @ \cup moved,
                 !.have_input_map = TRUE]

\* MapStore._add_input_map.  The copy of map_domain is a new creator, named
\* here by the name it is given.
_add_input_map(s) ==
    LET new_creator_name == s.name[s.map_domain] \o "_map"
        new_map_domain == new_creator_name
        arange == np_arange(Len(Val(s.initializer[s.map_domain])))
        s1 == [s EXCEPT !.name[new_map_domain] = new_creator_name,
                        !.initializer[new_map_domain] = Some(arange)]
        s2 == tree_node_init(s1, new_map_domain, {tree}, NoneStr, var_name)
        s3 == set_iname([s2 EXCEPT !.parent[tree] = new_map_domain],
                        tree, NoneStr)
        s4 == [s3 EXCEPT !.map_domain = new_map_domain,
                         !.domain_to_nodes =
                             Put(@, new_map_domain, new_map_domain)]
        moved == {child \in s4.children[tree] :
                     /\ ~is_leaf(s4, child)
                     /\ _get_map_transform(
                            arange, Val(s4.initializer[node_domain(child)]),
                            node_domain(child)).mapping = NoneStr}
    IN  IF s2.err # "" THEN s2
        ELSE [s4 EXCEPT
                 !.parent = [n \in Creators |->
                                IF n \in moved THEN new_map_domain ELSE @[n]],
                 !.children[tree] = @ \ moved,
                 !.children[new_map_domain] = @ \cup moved,
                 !.have_input_map = TRUE]

\* variant of the test of the first level that does not look at the first
\* index of the base
ChildNeedsInputMap_any_start(s) ==
    LET base == Val(s.initializer[node_domain(tree)])
    IN  \E child \in s.children[tree] :
            /\ ~is_leaf(s, child)
            /\ LET t == _get_map_transform(
                            base, Val(s.initializer[node_domain(child)]),
                            node_domain(child))
               IN  t.mapping # NoneStr /\ ~Truthy(t.affine)

\* finalize's test of the first level: some child that is no leaf needs a
\* map that is not affine, and the base does not start at 0
ChildNeedsInputMap(s) ==
    LET base == Val(s.initializer[node_domain(tree)])
    IN  \E child \in s.children[tree] :
            /\ ~is_leaf(s, child)
            /\ LET t == _get_map_transform(
                            base, Val(s.initializer[node_domain(child)]),
                            node_domain(child))
               IN  t.mapping # NoneStr /\ ~Truthy(t.affine) /\ base[1] # 0

\* the first part of finalize: the input map, if one is needed
finalize_input_map(s) ==
    LET s1 == IF _is_map /\ ~_is_contiguous(Val(s.initializer[s.map_domain]))
              THEN _add_input_map(s)
              ELSE s
    IN  IF _is_map /\ s1.err = "" /\ ~s1.have_input_map /\ ChildNeedsInputMap(s1)
        THEN _add_input_map(s1)
        ELSE s1

\* MapStore._create_transform(node, transform, affine): the new iname, the
\* instruction and the store, whose name generator has handed out a name
_create_transform(s, node, affine) ==
    LET par == s.parent[node]
        new_iname == _get_transform_iname(s.taken_transform_names)
        s1 == [s EXCEPT !.taken_transform_names = @ \cup {new_iname}]
        transform_insn ==
            generate_transform_instruction(
                s.iname_[par], new_iname, s.name[node_domain(node)], affine)
    IN  IF par = NoneStr \/ s.iname_[par] \in {NoneStr, ""}
        THEN [iname |-> NoneStr, insn |-> NoneStr, s |-> Raise(s, "AssertionError")]
        ELSE IF Truthy(affine)
        THEN [iname |-> transform_insn, insn |-> NoneStr, s |-> s1]
        ELSE [iname |-> new_iname, insn |-> transform_insn, s |-> s1]

\* variant of _check_create_transform that makes a new transform for a node
\* that has one
_check_create_transform_no_reuse(s, node) ==
    LET nothing == [iname |-> NoneStr, insn |-> NoneStr, dt |-> None, s |-> s]
    IN  IF s.parent[node] = NoneStr THEN nothing
        ELSE IF is_leaf(s, node) THEN nothing
        ELSE
          LET base == node_domain(s.parent[node])
              t == _get_transform(Val(s.initializer[base]),
                                  Val(s.initializer[node_domain(node)]),
                                  node_domain(node))
              dt == domain_transform(t.mapping, t.affine)
              made == _create_transform(s, node, t.affine)
          IN  IF t.mapping = NoneStr THEN nothing
              ELSE [iname |-> made.iname, insn |-> made.insn, dt |-> Some(dt),
                    s |-> made.s]

\* variant of _check_create_transform that treats a leaf with an initializer
\* as a domain
_check_create_transform_of_leaves(s, node) ==
    LET nothing == [iname |-> NoneStr, insn |-> NoneStr, dt |-> None, s |-> s]
    IN  IF s.parent[node] = NoneStr THEN nothing
        ELSE IF is_leaf(s, node) /\ s.initializer[node_domain(node)] = None
        THEN nothing
        ELSE
          LET base == node_domain(s.parent[node])
              t == _get_transform(Val(s.initializer[base]),
                                  Val(s.initializer[node_domain(node)]),
                                  node_domain(node))
              dt == domain_transform(t.mapping, t.affine)
              made == _create_transform(s, node, t.affine)
          IN  IF t.mapping = NoneStr THEN nothing
              ELSE IF node \in s.transformed_domains
                        /\ s.domain_transform_[node] = None
              THEN [nothing EXCEPT !.s = Raise(s, "AttributeError")]
              ELSE IF node \in s.transformed_domains
                        /\ domain_transform_eq(dt, Val(s.domain_transform_[node]))
              THEN [iname |-> s.iname_[node], insn |-> s.insn[node],
                    dt |-> s.domain_transform_[node], s |-> s]
              ELSE [iname |-> made.iname, insn |-> made.insn, dt |-> Some(dt),
                    s |-> made.s]

\* MapStore._check_create_transform(node): iname, insn, transform and the
\* store after the call
_check_create_transform(s, node) ==
    LET nothing == [iname |-> NoneStr, insn |-> NoneStr, dt |-> None, s |-> s]
    IN  IF s.parent[node] = NoneStr THEN nothing
        ELSE IF is_leaf(s, node) THEN nothing
        ELSE
          LET base == node_domain(s.parent[node])
              t == _get_transform(Val(s.initializer[base]),
                                  Val(s.initializer[node_domain(node)]),
                                  node_domain(node))
              dt == domain_transform(t.mapping, t.affine)
              made == _create_transform(s, node, t.affine)
          IN  IF t.mapping = NoneStr THEN nothing
              ELSE IF node \in s.transformed_domains
                        /\ s.domain_transform_[node] = None
              THEN [nothing EXCEPT !.s = Raise(s, "AttributeError")]
              ELSE IF node \in s.transformed_domains
                        /\ domain_transform_eq(dt, Val(s.domain_transform_[node]))
              THEN [iname |-> s.iname_[node], insn |-> s.insn[node],
                    dt |-> s.domain_transform_[node], s |-> s]
              ELSE [iname |-> made.iname, insn |-> made.insn, dt |-> Some(dt),
                    s |-> made.s]

\* variant of the body of finalize's loop that puts a node into
\* transformed_domains only if it got an instruction
finalize_node_lookups_only(s, node, base) ==
    IF node = base THEN s
    ELSE LET r == _check_create_transform(s, node)
             s1 == set_transform(r.s, node, r.iname, r.insn, r.dt)
         IN  IF r.s.err # "" THEN r.s
             ELSE IF s1.err # "" THEN s1
             ELSE IF ~(r.iname = NoneStr /\ r.insn = NoneStr /\ r.dt = None)
             THEN IF r.insn # NoneStr
                  THEN [s1 EXCEPT !.transformed_domains = @ \cup {node}]
                  ELSE s1
             ELSE set_iname(s1, node, s1.iname_[s1.parent[node]])

\* the body of finalize's loop over a branch, for one node
finalize_node(s, node, base) ==
    IF node = base THEN s
    ELSE LET r == _check_create_transform(s, node)
             s1 == set_transform(r.s, node, r.iname, r.insn, r.dt)
         IN  IF r.s.err # "" THEN r.s
             ELSE IF s1.err # "" THEN s1
             ELSE IF ~(r.iname = NoneStr /\ r.insn = NoneStr /\ r.dt = None)
             THEN [s1 EXCEPT !.transformed_domains = @ \cup {node}]
             ELSE set_iname(s1, node, s1.iname_[s1.parent[node]])

\* finalize's traversal.  stack is the list `branches`, cur the nodes of the
\* branch being iterated that are still to come; a set is iterated in any
\* order, so the result is the set of the stores the loop can end in.
RECURSIVE finalize_traverse(_, _, _, _)
finalize_traverse(s, stack, cur, base) ==
    IF s.err # "" THEN {s}
    ELSE IF cur # {}
    THEN UNION {finalize_traverse(finalize_node(s, node, base),
                                  Append(stack, s.children[node]),
                                  cur \ {node}, base) : node \in cur}
    ELSE IF stack # <<>>
    THEN finalize_traverse(s, SubSeq(stack, 1, Len(stack) - 1),
                           stack[Len(stack)], base)
    ELSE {[s EXCEPT !.is_finalized = TRUE]}

\* MapStore.finalize: the stores it can end in
finalize(s) ==
    LET s1 == finalize_input_map(s)
        base == IF s1.parent[tree] = NoneStr THEN tree ELSE s1.parent[tree]
    IN  IF s1.err # "" THEN {s1}
        ELSE finalize_traverse(s1, <<>>, {base}, base)

-----------------------------------------------------------------------------
(* creator.__call__ and MapStore.apply_maps, get_iname_domain *)

\* creator.num_indicies: len(shape)
num_indicies(c) == IF c = "v2" THEN 2 ELSE 1

\* creator.affine: a0, a1 and a2 have an offset of their own
creator_affine(c) ==
    CASE c = "a0" -> Some(0)
      [] c = "a1" -> Some(1)
      [] c = "a2" -> Some(-MaxOffset)
      [] OTHER -> None

\* ', '.join(inds)
RECURSIVE JoinComma(_)
JoinComma(inds) ==
    IF Len(inds) = 0 THEN ""
    ELSE IF Len(inds) = 1 THEN inds[1]
    ELSE inds[1] \o ", " \o JoinComma(Tail(inds))

\* creator.__call__(*indicies), without fixed indicies or private memory:
\* the indexed string, or the assertion of __get_indicies
creator_call(s, c, indicies) ==
    IF Len(indicies) # num_indicies(c)
    THEN [val |-> "", err |-> "AssertionError"]
    ELSE [val |-> s.name[c] \o "[" \o JoinComma(indicies) \o "]", err |-> ""]

\* np.abs
np_abs(x) == IF x >= 0 THEN x ELSE -x

\* variant of apply_maps in which the caller's offset replaces the array's own
apply_maps_replacing(s, variable, indicies, affine) ==
    LET var_affine == IF creator_affine(variable) # None
                      THEN Val(creator_affine(variable)) ELSE 0
        have_affine == var_affine # 0 \/ Truthy(affine)
        get_affine(iname) ==
            LET aff == IF affine # None THEN Val(affine) ELSE var_affine
            IN  IF ~have_affine THEN iname
                ELSE iname \o " " \o (IF aff >= 0 THEN "+" ELSE "-") \o " "
                         \o ToString(np_abs(aff))
        node == IF variable \in DOMAIN s.domain_to_nodes
                THEN s.domain_to_nodes[variable]
                ELSE tree
        mapped(x) == IF x # var_name THEN x
                     ELSE IF is_leaf(s, node) \/ node = tree THEN s.iname_[node]
                     ELSE s.iname_[s.parent[node]]
    IN  IF have_affine /\ Len(indicies) # 1
        THEN [val |-> "", err |-> "Exception"]
        ELSE creator_call(s, variable,
                          [k \in 1..Len(indicies) |-> get_affine(mapped(indicies[k]))])

\* variant of apply_maps that puts the offset on every index it is given
apply_maps_any_number(s, variable, indicies, affine) ==
    LET var_affine == IF creator_affine(variable) # None
                      THEN Val(creator_affine(variable)) ELSE 0
        have_affine == var_affine # 0 \/ Truthy(affine)
        get_affine(iname) ==
            LET aff == (IF affine # None THEN Val(affine) ELSE 0) + var_affine
            IN  IF ~have_affine THEN iname
                ELSE IF aff - var_affine # 0 \/ var_affine # 0
                THEN iname \o " " \o (IF aff >= 0 THEN "+" ELSE "-") \o " "
                         \o ToString(np_abs(aff))
                ELSE iname
        node == IF variable \in DOMAIN s.domain_to_nodes
                THEN s.domain_to_nodes[variable]
                ELSE tree
        mapped(x) == IF x # var_name THEN x
                     ELSE IF is_leaf(s, node) \/ node = tree THEN s.iname_[node]
                     ELSE s.iname_[s.parent[node]]
    IN  creator_call(s, variable,
                     [k \in 1..Len(indicies) |-> get_affine(mapped(indicies[k]))])

\* variant of apply_maps that takes the node's own name for every node
apply_maps_own_name(s, variable, indicies, affine) ==
    LET var_affine == IF creator_affine(variable) # None
                      THEN Val(creator_affine(variable)) ELSE 0
        have_affine == var_affine # 0 \/ Truthy(affine)
        get_affine(iname) ==
            LET aff == (IF affine # None THEN Val(affine) ELSE 0) + var_affine
            IN  IF ~have_affine THEN iname
                ELSE IF aff - var_affine # 0 \/ var_affine # 0
                THEN iname \o " " \o (IF aff >= 0 THEN "+" ELSE "-") \o " "
                         \o ToString(np_abs(aff))
                ELSE iname
        node == IF variable \in DOMAIN s.domain_to_nodes
                THEN s.domain_to_nodes[variable]
                ELSE tree
        mapped(x) == IF x # var_name THEN x ELSE s.iname_[node]
    IN  IF have_affine /\ Len(indicies) # 1
        THEN [val |-> "", err |-> "Exception"]
        ELSE creator_call(s, variable,
                          [k \in 1..Len(indicies) |-> get_affine(mapped(indicies[k]))])

\* MapStore.apply_maps(variable, *indicies, affine = affine) on a finalized
\* store, affine an optional integer
apply_maps(s, variable, indicies, affine) ==
    LET var_affine == IF creator_affine(variable) # None
                      THEN Val(creator_affine(variable)) ELSE 0
        have_affine == var_affine # 0 \/ Truthy(affine)
        get_affine(iname) ==
            LET aff == (IF affine # None THEN Val(affine) ELSE 0) + var_affine
            IN  IF ~have_affine THEN iname
                ELSE IF aff - var_affine # 0 \/ var_affine # 0
                THEN iname \o " " \o (IF aff >= 0 THEN "+" ELSE "-") \o " "
                         \o ToString(np_abs(aff))
                ELSE iname
        node == IF variable \in DOMAIN s.domain_to_nodes
                THEN s.domain_to_nodes[variable]
                ELSE tree
        mapped(x) == IF x # var_name THEN x
                     ELSE IF is_leaf(s, node) \/ node = tree THEN s.iname_[node]
                     ELSE s.iname_[s.parent[node]]
    IN  IF have_affine /\ Len(indicies) # 1
        THEN [val |-> "", err |-> "Exception"]
        ELSE creator_call(s, variable,
                          [k \in 1..Len(indicies) |-> get_affine(mapped(indicies[k]))])

\* MapStore.apply_maps(variable, *indicies, affine = affine) on a finalized
\* store, affine a dict from index names to integers
apply_maps_dict(s, variable, indicies, affine) ==
    LET var_affine == IF creator_affine(variable) # None
                      THEN Val(creator_affine(variable)) ELSE 0
        have_affine == var_affine # 0 \/ DOMAIN affine # {}
        node == IF variable \in DOMAIN s.domain_to_nodes
                THEN s.domain_to_nodes[variable]
                ELSE tree
        input_map == node = tree /\ var_name \in DOMAIN affine /\ s.have_input_map
        copied == IF input_map
                  THEN [k \in (DOMAIN affine \ {var_name}) \cup {s.iname_[node]} |->
                           IF k = s.iname_[node] THEN affine[var_name] ELSE affine[k]]
                  ELSE affine
        get_affine(iname) ==
            LET aff == IF iname \in DOMAIN copied THEN copied[iname] ELSE 0
            IN  IF ~have_affine THEN iname
                ELSE IF aff # 0 \/ var_affine # 0
                THEN iname \o " " \o (IF aff + var_affine >= 0 THEN "+" ELSE "-")
                         \o " " \o ToString(np_abs(aff + var_affine))
                ELSE iname
        mapped(x) == IF x # var_name THEN x
                     ELSE IF is_leaf(s, node) \/ node = tree THEN s.iname_[node]
                     ELSE s.iname_[s.parent[node]]
    IN  IF input_map /\ s.iname_[node] \in DOMAIN affine
        THEN [val |-> "", err |-> "AssertionError"]
        ELSE creator_call(s, variable,
                          [k \in 1..Len(indicies) |-> get_affine(mapped(indicies[k]))])

\* variant of get_iname_domain that reads the range off the old base
get_iname_domain_of_tree(s) ==
    LET arr == Val(s.initializer[node_domain(tree)])
    IN  IF _is_map
        THEN <<var_name, ToString(arr[1]) \o " <= " \o var_name \o " <= "
                             \o ToString(arr[Len(arr)])>>
        ELSE <<var_name, "0 <= " \o var_name \o " <= " \o ToString(Len(arr) - 1)>>

\* MapStore.get_iname_domain: the iname and its range
get_iname_domain(s) ==
    LET base == IF knl_type = "map" THEN s.map_domain ELSE mask_domain
        arr == Val(s.initializer[base])
    IN  IF _is_map
        THEN <<var_name, ToString(arr[1]) \o " <= " \o var_name \o " <= "
                             \o ToString(arr[Len(arr)])>>
        ELSE <<var_name, "0 <= " \o var_name \o " <= " \o ToString(Len(arr) - 1)>>

-----------------------------------------------------------------------------
(* creator.__call__ with fixed indicies, and jac_creator.  An index is a   *)
(* Python int or a Python str.                                             *)

\* the largest literal index
MaxIndex == 3

IntIndex(n) == [int |-> TRUE, n |-> n, s |-> ""]

StrIndex(s) == [int |-> FALSE, n |-> 0, s |-> s]

\* the literals an index can be
Literals == (-1)..(MaxIndex + 1)

\* str(x)
py_str(x) == IF x.int THEN ToString(x.n) ELSE x.s

\* int(x): the number, or nothing where int raises
py_int(x) ==
    IF x.int THEN Some(x.n)
    ELSE IF \E n \in Literals : ToString(n) = x.s
    THEN Some(CHOOSE n \in Literals : ToString(n) = x.s)
    ELSE None

\* global_ind
global_ind == StrIndex("j")

\* variant of __get_indicies that fills the unpinned axes from the last one
__get_indicies_backwards(rank, fixed_indicies, indicies) ==
    LET pinned == {fixed_indicies[k][1] + 1 : k \in 1..Len(fixed_indicies)}
        last(i) == CHOOSE k \in 1..Len(fixed_indicies) :
                       /\ fixed_indicies[k][1] + 1 = i
                       /\ \A m \in (k + 1)..Len(fixed_indicies) :
                              fixed_indicies[m][1] + 1 # i
        empty == (1..rank) \ pinned
        place(i) == Cardinality({e \in empty : e >= i})
    IN  IF Len(fixed_indicies) > 0
        THEN IF pinned \subseteq 1..rank
             THEN IF Cardinality(empty) = Len(indicies)
                  THEN [val |-> [i \in 1..rank |->
                                    IF i \in pinned
                                    THEN fixed_indicies[last(i)][2]
                                    ELSE indicies[place(i)]],
                        err |-> ""]
                  ELSE [val |-> <<>>, err |-> "AssertionError"]
             ELSE [val |-> <<>>, err |-> "IndexError"]
        ELSE IF Len(indicies) = rank THEN [val |-> indicies, err |-> ""]
        ELSE [val |-> <<>>, err |-> "AssertionError"]

\* creator.__get_indicies(*indicies) of an array of len(shape) = rank.
\* fixed_indicies is the list of (axis, value), the axes counted from 0; the
\* last pin of an axis is the one that stays.
__get_indicies(rank, fixed_indicies, indicies) ==
    LET pinned == {fixed_indicies[k][1] + 1 : k \in 1..Len(fixed_indicies)}
        last(i) == CHOOSE k \in 1..Len(fixed_indicies) :
                       /\ fixed_indicies[k][1] + 1 = i
                       /\ \A m \in (k + 1)..Len(fixed_indicies) :
                              fixed_indicies[m][1] + 1 # i
        empty == (1..rank) \ pinned
        place(i) == Cardinality({e \in empty : e <= i})
    IN  IF Len(fixed_indicies) > 0
        THEN IF pinned \subseteq 1..rank
             THEN IF Cardinality(empty) = Len(indicies)
                  THEN [val |-> [i \in 1..rank |->
                                    IF i \in pinned
                                    THEN fixed_indicies[last(i)][2]
                                    ELSE indicies[place(i)]],
                        err |-> ""]
                  ELSE [val |-> <<>>, err |-> "AssertionError"]
             ELSE [val |-> <<>>, err |-> "IndexError"]
        ELSE IF Len(indicies) = rank THEN [val |-> indicies, err |-> ""]
        ELSE [val |-> <<>>, err |-> "AssertionError"]

\* the indicies but the first that is the global index, if private memory
\* is asked for and the array is neither input nor output
RECURSIVE without_glob_ind(_)
without_glob_ind(inds) ==
    IF Len(inds) = 0 THEN inds
    ELSE IF inds[1] = global_ind THEN Tail(inds)
    ELSE <<inds[1]>> \o without_glob_ind(Tail(inds))

\* creator.__call__(*indicies, use_private_memory = private) of the array
\* `array` that is neither input nor output: the access string
creator___call__(array, rank, fixed_indicies, indicies, private) ==
    LET got == __get_indicies(rank, fixed_indicies, indicies)
        inds == IF private THEN without_glob_ind(got.val) ELSE got.val
    IN  IF got.err # "" THEN [val |-> "", err |-> got.err]
        ELSE [val |-> array \o "["
                          \o JoinComma([k \in 1..Len(inds) |-> py_str(inds[k])])
                          \o "]",
              err |-> ""]

\* lp_pregen.jac_indirect_lookup.name, the name of the lookup routine
jac_indirect_lookup_name == "jac_indirect"

\* the names of the creators a NameStore hands a jac_creator as row_inds and
\* col_inds: the compressed-row arrays in C order, the compressed-column
\* arrays in F order
row_inds(order) == IF order = "C" THEN "jac_row_ptr" ELSE "jac_row_inds"

col_inds(order) == IF order = "C" THEN "jac_col_inds" ELSE "jac_col_ptr"

\* variant of __lookups that never skips the lookup routine
__lookups_never_skip(order, arr, lookup, match) ==
    LET added == IF lookup.int THEN IntIndex(lookup.n + 1)
                 ELSE StrIndex(py_str(lookup) \o " + 1")
    IN  jac_indirect_lookup_name \o "("
                 \o creator___call__(arr, 1, <<>>, <<lookup>>, FALSE).val \o ", "
                 \o creator___call__(arr, 1, <<>>, <<added>>, FALSE).val \o ", "
                 \o py_str(match) \o ")"

\* jac_creator.__get_offset_and_lookup.__lookups(arr, lookup, match)
__lookups(order, arr, lookup, match) ==
    LET __lt(x) == py_int(x) # None /\ Val(py_int(x)) < 2
        can_skip == (order = "C" /\ __lt(lookup)) \/ (order = "F" /\ __lt(match))
        added == IF lookup.int THEN IntIndex(lookup.n + 1)
                 ELSE StrIndex(py_str(lookup) \o " + 1")
    IN  IF can_skip THEN py_str(match)
        ELSE jac_indirect_lookup_name \o "("
                 \o creator___call__(arr, 1, <<>>, <<lookup>>, FALSE).val \o ", "
                 \o creator___call__(arr, 1, <<>>, <<added>>, FALSE).val \o ", "
                 \o py_str(match) \o ")"

\* jac_creator.__get_offset_and_lookup(*indicies), of two indicies or more
__get_offset_and_lookup(order, indicies) ==
    LET row == indicies[Len(indicies) - 1]
        col == indicies[Len(indicies)]
    IN  IF order = "C"
        THEN [offset |-> creator___call__(row_inds(order), 1, <<>>, <<row>>,
                                          FALSE).val,
              lookup |-> __lookups(order, row_inds(order), row, col)]
        ELSE [offset |-> creator___call__(col_inds(order), 1, <<>>, <<col>>,
                                          FALSE).val,
              lookup |-> __lookups(order, col_inds(order), col, row)]

\* jac_creator.__call__(*indicies, ignore_lookups, plain_index) of the array
\* jac, of two indicies or more: the access string, or with plain_index the
\* tuple (replace_ind, computed_ind, offset, lookup)
jac_creator___call__(order, is_sparse, indicies, ignore_lookups, plain_index) ==
    LET got == __get_offset_and_lookup(order, indicies)
        replaced ==
            IF is_sparse
            THEN <<indicies[1], StrIndex(got.offset \o " + " \o got.lookup)>>
            ELSE IF order = "C"
            THEN [indicies EXCEPT ![3] = StrIndex(got.lookup)]
            ELSE [indicies EXCEPT ![2] = StrIndex(got.lookup)]
        replace_ind == IF ~is_sparse /\ order = "C" THEN 2 ELSE 1
        rank == IF is_sparse THEN 2 ELSE 3
    IN  IF ~ignore_lookups /\ ~is_sparse /\ order = "C" /\ Len(indicies) < 3
        THEN [val |-> "", err |-> "IndexError"]
        ELSE IF plain_index
        THEN IF ignore_lookups THEN [val |-> "", err |-> "AssertionError"]
             ELSE [val |-> <<replace_ind, py_str(replaced[replace_ind + 1]),
                             got.offset, got.lookup>>,
                   err |-> ""]
        ELSE creator___call__("jac", rank, <<>>,
                              IF ignore_lookups THEN indicies ELSE replaced,
                              FALSE)

-----------------------------------------------------------------------------
(* MapStore.copy: copy.deepcopy.  Every object the resolver reaches is      *)
(* copied: the creators, the nodes, the index with its keys.  The clone's   *)
(* store names an object by the id of the object it is the copy of, and    *)
(* aliased holds the creators that are one object in both.                  *)

\* variant of copy that copies the tree and hands the descriptors on
MapStore_copy_sharing_creators(s) == [s |-> s, aliased |-> Creators]

\* MapStore.copy()
MapStore_copy(s) == [s |-> s, aliased |-> {}]

\* The clone's objects as a call on the clone sees them that is handed
\* variable, a descriptor of the original o: unless it is aliased, it is no
\* key of the clone's index, and its fields are those it has in o.
handed(c, o, variable) ==
    IF variable \in c.aliased THEN c.s
    ELSE [c.s EXCEPT
             !.domain_to_nodes = [k \in (DOMAIN @) \ {variable} |-> @[k]],
             !.name[variable] = o.name[variable],
             !.initializer[variable] = o.initializer[variable]]

-----------------------------------------------------------------------------
(* The runs *)

\* the initializers of the creators: arrays for base, d1, d2 and v1
Initializers(b, a1, a2, a3) ==
    [c \in Creators |->
        CASE c = "base" -> Some(b)
          [] c = "mask" -> Some(Run(0, DomLen))
          [] c = "d1" -> Some(a1)
          [] c = "d2" -> Some(a2)
          [] c = "v1" -> Some(a3)
          [] OTHER -> None]

\* the initializers of a map kernel: d2's array is equal to d1's or is one
\* particular array
MapInitializers ==
    UNION {{Initializers(b, a1, a2, Gap(MaxStart)) : a2 \in {a1, Gap(0)}} :
              b \in MapBaseArrays, a1 \in MapDomainArrays}

\* the initializers of a mask kernel
MaskInitializers ==
    UNION {{Initializers(b, a1, a2, Masked(1)) : a2 \in {a1, Masked(1)}} :
              b \in {Run(a, DomLen) : a \in Starts}, a1 \in MaskDomainArrays}

\* the arguments of the calls
RegVariables == {"v1", "v2"}

RegDomains == {tree, "d1", "d2", "v1"}

ApplyVariables == {"d1", "v1", "v2"}

ApplyIndicies == {<<"i">>, <<"j", "i">>}

ApplyAffines == {None}

\* before the constructor is called: the mode, the arrays of the creators
InitFrom(raise_modes, map_initializers, mask_initializers) ==
    /\ pc = "new"
    /\ knl_type \in {"map", "mask"}
    /\ raise_on_final \in raise_modes
    /\ name = [c \in Creators |-> IF c \in InputMapCreators THEN NoneStr ELSE c]
    /\ initializer \in (IF knl_type = "map" THEN map_initializers
                        ELSE mask_initializers)
    /\ map_domain = "base"
    /\ mask_domain = "mask"
    /\ tree = NoneStr
    /\ nodes = {}
    /\ parent = [c \in Creators |-> NoneStr]
    /\ children = [c \in Creators |-> {}]
    /\ iname_ = [c \in Creators |-> NoneStr]
    /\ insn = [c \in Creators |-> NoneStr]
    /\ domain_transform_ = [c \in Creators |-> None]
    /\ domain_to_nodes = <<>>
    /\ transformed_domains = {}
    /\ taken_transform_names = {}
    /\ have_input_map = FALSE
    /\ is_finalized = FALSE
    /\ clone = None
    /\ ret = Returned("", <<>>, "", "")

InitWith(raise_modes) == InitFrom(raise_modes, MapInitializers, MaskInitializers)

\* raise_on_final keeps its default, True
Init == InitWith({TRUE})

\* MapStore(loopy_opts, map_domain, mask_domain)
Construct ==
    /\ pc = "new"
    /\ LET s == MapStore_init(Store)
       IN  IF s.err # ""
           THEN /\ pc' = "failed"
                /\ ret' = Returned("MapStore", <<>>, "", s.err)
                /\ UNCHANGED <<resolved, is_finalized, tree>>
           ELSE /\ pc' = "idle"
                /\ ret' = Returned("MapStore", <<>>, "", "")
                /\ tree' = IF knl_type = "map" THEN map_domain ELSE mask_domain
                /\ Becomes(s)
    /\ UNCHANGED <<knl_type, raise_on_final, mask_domain, clone>>

\* mapstore.check_and_add_transform(variable, domain)
CheckAndAddTransform ==
    /\ pc = "idle"
    /\ \E variable \in RegVariables, domain \in RegDomains :
           LET s == check_and_add_transform(Store, variable, domain)
           IN  /\ Becomes([s EXCEPT !.err = ""])
               /\ ret' = Returned("check_and_add_transform", <<variable, domain>>,
                                "", s.err)
    /\ UNCHANGED <<pc, knl_type, raise_on_final, mask_domain, tree, clone>>

\* mapstore.finalize()
Finalize ==
    /\ pc = "idle"
    /\ \E s \in finalize(Store) :
           /\ Becomes([s EXCEPT !.err = ""])
           /\ ret' = Returned("finalize", <<>>, "", s.err)
    /\ UNCHANGED <<pc, knl_type, raise_on_final, mask_domain, tree, clone>>

\* variant of ApplyMaps that answers from the store as it is
ApplyMaps_as_is ==
    /\ pc = "idle"
    /\ \E variable \in ApplyVariables, indicies \in ApplyIndicies,
          affine \in ApplyAffines :
           /\ Becomes(Store)
           /\ LET r == apply_maps(Store, variable, indicies, affine)
              IN  ret' = Returned("apply_maps", <<variable, indicies, affine>>,
                                  r.val, r.err)
    /\ UNCHANGED <<pc, knl_type, raise_on_final, mask_domain, tree, clone>>

\* mapstore.apply_maps(variable, *indicies, affine = affine): finalize first
\* if that has not been done
ApplyMaps ==
    /\ pc = "idle"
    /\ \E s \in (IF is_finalized THEN {Store} ELSE finalize(Store)) :
           \E variable \in ApplyVariables, indicies \in ApplyIndicies,
              affine \in ApplyAffines :
               /\ Becomes([s EXCEPT !.err = ""])
               /\ LET r == IF s.err # "" THEN [val |-> "", err |-> s.err]
                           ELSE apply_maps(s, variable, indicies, affine)
                  IN  ret' = Returned("apply_maps",
                                      <<variable, indicies, affine>>,
                                      r.val, r.err)
    /\ UNCHANGED <<pc, knl_type, raise_on_final, mask_domain, tree, clone>>

Next == Construct \/ CheckAndAddTransform \/ Finalize \/ ApplyMaps

Spec == Init /\ [][Next]_vars

\* the arguments of apply_maps with offsets: arrays with and without a node
\* and with and without an offset of their own, the root's creator among them
OffsetVariables == {tree, "d1", "v1", "v2", "a0", "a1", "a2"}

ApplyOffsets == {None} \cup {Some(b) : b \in (-MaxOffset)..MaxOffset}

ApplyDicts ==
    {[k \in {var_name} |-> 1],
     [k \in {var_name, "j"} |-> IF k = "j" THEN MaxOffset ELSE -1]}

\* mapstore.apply_maps(variable, *indicies, affine = affine), affine None or an
\* integer
ApplyMapsOffset ==
    /\ pc = "idle"
    /\ \E s \in (IF is_finalized THEN {Store} ELSE finalize(Store)) :
           \E variable \in OffsetVariables, indicies \in ApplyIndicies,
              affine \in ApplyOffsets :
               /\ Becomes([s EXCEPT !.err = ""])
               /\ LET r == IF s.err # "" THEN [val |-> "", err |-> s.err]
                           ELSE apply_maps(s, variable, indicies, affine)
                  IN  ret' = Returned("apply_maps",
                                      <<variable, indicies, affine>>,
                                      r.val, r.err)
    /\ UNCHANGED <<pc, knl_type, raise_on_final, mask_domain, tree, clone>>

\* mapstore.apply_maps(variable, *indicies, affine = affine), affine a dict
ApplyMapsDict ==
    /\ pc = "idle"
    /\ \E s \in (IF is_finalized THEN {Store} ELSE finalize(Store)) :
           \E variable \in OffsetVariables, indicies \in ApplyIndicies,
              affine \in ApplyDicts :
               /\ Becomes([s EXCEPT !.err = ""])
               /\ LET r == IF s.err # "" THEN [val |-> "", err |-> s.err]
                           ELSE apply_maps_dict(s, variable, indicies, affine)
                  IN  ret' = Returned("apply_maps_dict",
                                      <<variable, indicies, affine>>,
                                      r.val, r.err)
    /\ UNCHANGED <<pc, knl_type, raise_on_final, mask_domain, tree, clone>>

NextOffsets ==
    Construct \/ CheckAndAddTransform \/ Finalize \/ ApplyMapsOffset
        \/ ApplyMapsDict

\* a few kernels, with raise_on_final True and False: registration after
\* finalize goes through when it is False
FewMapInitializers ==
    {Initializers(Run(MaxStart, DomLen), Gap(0), Gap(0), Gap(MaxStart)),
     Initializers(Run(0, DomLen), Run(MaxStart, DomLen), Gap(0), Gap(MaxStart)),
     Initializers(Gap(0), Run(0, DomLen), Run(0, DomLen), Gap(MaxStart))}

FewMaskInitializers ==
    {Initializers(Run(0, DomLen), Masked(1), Masked(1), Masked(1)),
     Initializers(Run(0, DomLen), MaskedTail(1), Masked(1), Masked(1)),
     Initializers(Run(0, DomLen), Run(MaxStart, DomLen), Masked(1), Masked(1))}

InitEitherMode == InitFrom(BOOLEAN, FewMapInitializers, FewMaskInitializers)

SpecEitherMode == InitEitherMode /\ [][Next]_vars

\* mask kernels with a domain that is longer than the mask: the sentinel
\* fills the slots past the mask's size
LongMaskInitializers ==
    {Initializers(Run(0, DomLen), Run(0, DomLen) \o <<-1>>, Masked(1), Masked(1)),
     Initializers(Run(0, DomLen), MaskedTail(1) \o <<-1>>, Masked(1), Masked(1))}

InitLongMask ==
    /\ InitFrom({TRUE}, LongMaskInitializers, LongMaskInitializers)
    /\ knl_type = "mask"

SpecLongMask == InitLongMask /\ [][Next]_vars

\* the same few kernels, raise_on_final True, with calls that have offsets
OffsetMapInitializers ==
    {Initializers(Run(MaxStart, DomLen), Gap(0), Gap(0), Gap(MaxStart)),
     Initializers(Run(0, DomLen), Run(MaxStart, DomLen), Gap(0), Gap(MaxStart)),
     Initializers(Gap(0), Run(0, DomLen), Run(0, DomLen), Gap(MaxStart))}

OffsetMaskInitializers ==
    {Initializers(Run(0, DomLen), MaskedTail(1), Masked(1), Masked(1))}

InitOffsets == InitFrom({TRUE}, OffsetMapInitializers, OffsetMaskInitializers)

SpecOffsets == InitOffsets /\ [][NextOffsets]_vars

\* kernels for the claims about what finalize leaves behind: under a dense
\* root a domain that is equal to it, one shifted by a constant and one
\* that needs a lookup; a base that is not contiguous; a base that does not
\* start at 0 with a child that needs a lookup; three mask kernels
ResolveMapInitializers ==
    {Initializers(Run(0, DomLen), Gap(0), Run(MaxStart, DomLen), Run(0, DomLen)),
     Initializers(Gap(0), Gap(MaxStart), Run(0, DomLen), Run(MaxStart, DomLen)),
     Initializers(Run(MaxStart, DomLen), Gap(0), Run(0, DomLen), Gap(MaxStart))}

InitResolve == InitFrom({TRUE}, ResolveMapInitializers, FewMaskInitializers)

SpecResolve == InitResolve /\ [][Next]_vars

\* the arguments of the calls when there is a clone
CopyRegVariables == {"v1"}

CopyRegDomains == {"d1", "d2"}

CloneApplyVariables == {"d1", "v1"}

\* mapstore.check_and_add_transform(variable, domain), with these arguments
CheckAndAddTransformFew ==
    /\ pc = "idle"
    /\ \E variable \in CopyRegVariables, domain \in CopyRegDomains :
           LET s == check_and_add_transform(Store, variable, domain)
           IN  /\ Becomes([s EXCEPT !.err = ""])
               /\ ret' = Returned("check_and_add_transform", <<variable, domain>>,
                                "", s.err)
    /\ UNCHANGED <<pc, knl_type, raise_on_final, mask_domain, tree, clone>>

\* the clone takes the fields of store s; an aliased creator is the
\* original's as well
CloneBecomes(s) ==
    /\ clone' = Some([Val(clone) EXCEPT !.s = [s EXCEPT !.err = ""]])
    /\ name' = [c \in Creators |->
                   IF c \in Val(clone).aliased THEN s.name[c] ELSE name[c]]
    /\ initializer' = [c \in Creators |->
                          IF c \in Val(clone).aliased THEN s.initializer[c]
                          ELSE initializer[c]]
    /\ UNCHANGED <<pc, knl_type, raise_on_final, map_domain, mask_domain, tree,
                   nodes, parent, children, iname_, insn, domain_transform_,
                   domain_to_nodes, transformed_domains, taken_transform_names,
                   have_input_map, is_finalized>>

\* clone = mapstore.copy()
Copy ==
    /\ pc = "idle"
    /\ clone = None
    /\ clone' = Some(MapStore_copy(Store))
    /\ ret' = Returned("copy", <<>>, "", "")
    /\ UNCHANGED <<pc, knl_type, raise_on_final, mask_domain, tree, resolved,
                   is_finalized>>

\* clone.check_and_add_transform(variable, domain), with the clone's copies
\* of variable and domain
CloneCheckAndAddTransform ==
    /\ clone # None
    /\ \E variable \in CopyRegVariables, domain \in CopyRegDomains :
           LET s == check_and_add_transform(Val(clone).s, variable, domain)
           IN  /\ CloneBecomes(s)
               /\ ret' = Returned("clone.check_and_add_transform",
                                  <<variable, domain>>, "", s.err)

\* clone.finalize()
CloneFinalize ==
    /\ clone # None
    /\ \E s \in finalize(Val(clone).s) :
           /\ CloneBecomes(s)
           /\ ret' = Returned("clone.finalize", <<>>, "", s.err)

\* the caller renames the clone's map_domain and replaces its initializer,
\* as _add_input_map does with the copy of a descriptor
CloneSetFields ==
    /\ clone # None
    /\ LET s == Val(clone).s
           c == s.map_domain
       IN  /\ s.name[c] = c
           /\ CloneBecomes(
                  [s EXCEPT !.name[c] = @ \o "_map",
                            !.initializer[c] =
                                Some(np_arange(Len(Val(@))))])
           /\ ret' = Returned("clone.map_domain.name", <<c>>, "", "")

\* clone.apply_maps(variable, 'i'): finalize first if that has not been done.
\* variable is the clone's copy (own) or the descriptor of the original.
CloneApplyMaps ==
    /\ clone # None
    /\ \E s \in (IF Val(clone).s.is_finalized THEN {Val(clone).s}
                 ELSE finalize(Val(clone).s)) :
           \E variable \in CloneApplyVariables, own \in BOOLEAN :
               /\ CloneBecomes(s)
               /\ LET c == [Val(clone) EXCEPT !.s = s]
                      r == IF s.err # "" THEN [val |-> "", err |-> s.err]
                           ELSE apply_maps(IF own THEN s
                                           ELSE handed(c, Store, variable),
                                           variable, <<var_name>>, None)
                  IN  ret' = Returned("clone.apply_maps", <<variable, own>>,
                                      r.val, r.err)

NextCopy ==
    Construct \/ CheckAndAddTransformFew \/ Finalize \/ Copy
        \/ CloneCheckAndAddTransform \/ CloneFinalize \/ CloneSetFields
        \/ CloneApplyMaps

\* two map kernels and a mask kernel, with a clone
CopyMapInitializers ==
    {Initializers(Run(0, DomLen), Gap(0), Gap(0), Gap(MaxStart)),
     Initializers(Run(MaxStart, DomLen), Gap(0), Gap(0), Gap(MaxStart))}

CopyMaskInitializers ==
    {Initializers(Run(0, DomLen), MaskedTail(1), Masked(1), Masked(1))}

InitCopy == InitFrom({TRUE}, CopyMapInitializers, CopyMaskInitializers)

SpecCopy == InitCopy /\ [][NextCopy]_vars

\* the indicies of the calls of a descriptor
CallRows ==
    {IntIndex(n) : n \in 0..MaxIndex}
        \cup {StrIndex("0"), StrIndex("1"), StrIndex("2"), StrIndex("row")}

CallCols == {IntIndex(0), IntIndex(MaxIndex), StrIndex("col")}

CallIndicies ==
    {<<global_ind, row, col>> : row \in CallRows, col \in CallCols}
        \cup {<<row, col>> : row \in {IntIndex(0), IntIndex(2)},
                            col \in {StrIndex("col")}}

\* the pins of an array of three axes, and the indicies it is called with
CallPins ==
    {<<>>, <<<<0, IntIndex(0)>>>>, <<<<1, StrIndex("k")>>>>,
     <<<<2, IntIndex(1)>>, <<0, IntIndex(2)>>>>,
     <<<<1, IntIndex(1)>>, <<1, IntIndex(2)>>>>,
     <<<<0, IntIndex(0)>>, <<1, IntIndex(1)>>, <<2, IntIndex(2)>>>>,
     <<<<MaxIndex, IntIndex(0)>>>>}

CallSupplied ==
    {<<>>, <<StrIndex("i")>>, <<global_ind, StrIndex("i")>>,
     <<StrIndex("i"), global_ind>>,
     <<global_ind, StrIndex("i"), IntIndex(0)>>,
     <<global_ind, StrIndex("i"), IntIndex(0), IntIndex(1)>>}

\* jac(*indicies, ignore_lookups = ..., plain_index = ...) of a jac_creator
JacCall ==
    /\ \E order \in {"C", "F"}, is_sparse \in BOOLEAN,
          indicies \in CallIndicies,
          ignore_lookups \in BOOLEAN, plain_index \in BOOLEAN :
           LET r == jac_creator___call__(order, is_sparse, indicies,
                                         ignore_lookups, plain_index)
           IN  ret' = Returned("jac_creator.__call__",
                               [order |-> order, is_sparse |-> is_sparse,
                                indicies |-> indicies,
                                ignore_lookups |-> ignore_lookups,
                                plain_index |-> plain_index],
                               r.val, r.err)
    /\ UNCHANGED <<pc, knl_type, raise_on_final, mask_domain, tree, resolved,
                   is_finalized, clone>>

\* arr(*indicies, use_private_memory = ...) of a creator of three axes
CreatorCall ==
    /\ \E fixed_indicies \in CallPins, indicies \in CallSupplied,
          private \in BOOLEAN :
           LET r == creator___call__("arr", 3, fixed_indicies, indicies, private)
           IN  ret' = Returned("creator.__call__",
                               [fixed_indicies |-> fixed_indicies,
                                indicies |-> indicies, private |-> private],
                               r.val, r.err)
    /\ UNCHANGED <<pc, knl_type, raise_on_final, mask_domain, tree, resolved,
                   is_finalized, clone>>

NextCalls == JacCall \/ CreatorCall

\* the descriptors are called before any resolver is built
InitCalls ==
    /\ InitFrom({TRUE}, {Initializers(Run(0, DomLen), Gap(0), Gap(0), Gap(0))},
                {Initializers(Run(0, DomLen), Masked(1), Masked(1), Masked(1))})
    /\ knl_type = "map"

SpecCalls == InitCalls /\ [][NextCalls]_vars

-----------------------------------------------------------------------------
(* Vocabulary of the properties *)

\* MapStore.transform_insns
transform_insns == {insn[n] : n \in {v \in transformed_domains : insn[v] \notin {NoneStr, ""}}}

\* the index array of a creator
ArrayOf(c) == Val(initializer[c])

\* an index array that is a run of consecutive integers
IsRun(arr) == \A k \in 1..Len(arr) : arr[k] = arr[1] + k - 1

\* the node is neither a leaf nor the root of the whole tree
IsInner(n) == n \in nodes /\ parent[n] # NoneStr /\ ~is_leaf(Store, n)

\* child is parent shifted by one constant (0: the arrays are identical)
ShiftedBy(par, child, c) ==
    Len(par) = Len(child) /\ \A k \in 1..Len(child) : child[k] - par[k] = c

\* instruction i is a lookup in the table of creator c
IsLookupIn(i, c) ==
    \E nm \in taken_transform_names, p \in nodes :
        i = generate_transform_instruction(iname_[p], nm, name[c], None)

\* the nodes that finalize gave an instruction
LookupNodes == {n \in nodes : insn[n] # NoneStr}

\* the mask size is exceeded by an index of creator c
OutOfMask(c) ==
    initializer[c] # None /\ np_max(ArrayOf(c)) >= Len(ArrayOf(mask_domain))

-----------------------------------------------------------------------------
(* C1: two arrays registered with two distinct domain objects whose index  *)
(* arrays are equal are placed under one shared node, and finalize emits   *)
(* exactly one lookup instruction for them.  The claim as made: refuted.   *)
C1_EqualArraysShareNode ==
    /\ (ret.op = "check_and_add_transform" /\ ret.err = "") =>
           \A a \in nodes, d \in DOMAIN domain_to_nodes :
               (/\ a # ret.args[1]
                /\ is_leaf(Store, a)
                /\ d \notin {ret.args[2], tree}
                /\ parent[a] = domain_to_nodes[d]
                /\ initializer[d] = initializer[ret.args[2]])
               => parent[ret.args[1]] = parent[a]
    /\ is_finalized =>
           \A a, b \in nodes :
               (/\ a # b
                /\ is_leaf(Store, a)
                /\ is_leaf(Store, b)
                /\ parent[a] \in LookupNodes
                /\ parent[b] \in LookupNodes
                /\ initializer[parent[a]] = initializer[parent[b]])
               => Cardinality({insn[parent[a]], insn[parent[b]]}) = 1

(* C1, amended: a creator has one node, an array registered with a domain  *)
(* object is a child of that object's node (so two arrays registered with  *)
(* the same object share it), a node that needs a lookup gets exactly one  *)
(* instruction in its table, and two nodes never share an instruction,     *)
(* equal index arrays or not.                                              *)
C1_SameObjectSharesNode ==
    /\ (ret.op = "check_and_add_transform" /\ ret.err = "") =>
           /\ ret.args[2] \in DOMAIN domain_to_nodes
           /\ node_domain(domain_to_nodes[ret.args[2]]) = ret.args[2]
           /\ parent[ret.args[1]] = domain_to_nodes[ret.args[2]]
           /\ ret.args[1] \in children[domain_to_nodes[ret.args[2]]]
    /\ is_finalized =>
           \A d \in LookupNodes :
               /\ Cardinality({i \in transform_insns : IsLookupIn(i, d)}) = 1
               /\ \A e \in LookupNodes \ {d} : insn[e] # insn[d]

C1_Witness ==
    /\ is_finalized
    /\ parent["v1"] = "d1"
    /\ parent["v2"] = "d1"
    /\ "d1" \in LookupNodes

(* C2: in map and in mask mode, a node that is no leaf and whose index     *)
(* array is identical to its parent's gets the identity transform: no      *)
(* instruction, no domain_transform, not in transformed_domains, and the   *)
(* parent's resolved name.                                                 *)
C2_IdenticalIsIdentity ==
    is_finalized =>
        \A n \in nodes :
            (IsInner(n) /\ initializer[n] = initializer[parent[n]]) =>
                /\ insn[n] = NoneStr
                /\ domain_transform_[n] = None
                /\ n \notin transformed_domains
                /\ iname_[n] = iname_[parent[n]]

C2_Witness ==
    /\ is_finalized
    /\ knl_type = "mask"
    /\ \E n \in nodes :
           /\ IsInner(n)
           /\ initializer[n] = initializer[parent[n]]
           /\ children[n] # {}

(* C3: in map mode, a node that is no leaf and whose index array is its    *)
(* parent's plus one constant c # 0 is resolved to the parent's name plus  *)
(* c, with no instruction and no lookup in its table in transform_insns.   *)
C3_AffineIsFolded ==
    (is_finalized /\ _is_map) =>
        \A n \in nodes :
            LET c == ArrayOf(n)[1] - ArrayOf(parent[n])[1]
            IN  (IsInner(n) /\ c # 0 /\ ShiftedBy(ArrayOf(parent[n]), ArrayOf(n), c))
                => /\ iname_[n] = iname_[parent[n]] \o " + " \o ToString(c)
                   /\ insn[n] = NoneStr
                   /\ \A i \in transform_insns : ~IsLookupIn(i, n)

C3_Witness ==
    /\ is_finalized
    /\ _is_map
    /\ \E n \in nodes :
           /\ IsInner(n)
           /\ n # tree
           /\ ShiftedBy(ArrayOf(parent[n]), ArrayOf(n), -1)
           /\ transform_insns # {}

(* C4: a call of finalize on a finalized MapStore changes nothing: the     *)
(* tree, the names, instructions and transforms, transformed_domains, the  *)
(* index and the names the generator has handed out all stay as they were. *)
C4_FinalizeIdempotent ==
    [][(is_finalized /\ ret'.op = "finalize") =>
           (UNCHANGED resolved /\ is_finalized' /\ ret'.err = "")]_vars

C4_Witness ==
    /\ is_finalized
    /\ ret.op = "finalize"
    /\ have_input_map
    /\ Cardinality(LookupNodes) >= 2
    /\ \E n \in transformed_domains : insn[n] = NoneStr

(* C5: after finalize two nodes with an instruction share it exactly when  *)
(* their domain_transforms compare equal; a node that does not share has a *)
(* name of its own, which is neither the loop variable nor another node's  *)
(* generated name, and the one instruction name = table[parent's name].    *)
C5_LookupDeduplication ==
    is_finalized =>
        \A p \in LookupNodes :
            /\ \A q \in LookupNodes \ {p} :
                   /\ (insn[p] = insn[q]) <=>
                          domain_transform_eq(Val(domain_transform_[p]),
                                              Val(domain_transform_[q]))
                   /\ insn[p] # insn[q] => iname_[p] # iname_[q]
            /\ iname_[p] # var_name
            /\ iname_[p] \in taken_transform_names
            /\ insn[p] = "<> " \o iname_[p] \o " = " \o name[p] \o "["
                             \o iname_[parent[p]] \o "] {id=index_" \o iname_[p]
                             \o "}"
            /\ insn[p] \in transform_insns

C5_Witness ==
    /\ is_finalized
    /\ {"d1", "d2"} \subseteq LookupNodes
    /\ initializer["d1"] = initializer["d2"]

(* C6: in map mode a base domain that is not a run of consecutive integers *)
(* always gets an input map from finalize.                                 *)
C6_NonContiguousGetsInputMap ==
    (is_finalized /\ _is_map /\ ~IsRun(ArrayOf(tree))) => have_input_map

(* C7: with a base that is a run of consecutive integers, finalize makes   *)
(* an input map exactly when the run does not start at 0 and a child of    *)
(* the root that is no leaf needs a lookup against the base; and there is  *)
(* never more than one input map.                                          *)
C7_ContiguousInputMap ==
    /\ Cardinality(nodes \cap InputMapCreators) <= 1
    /\ have_input_map <=> (nodes \cap InputMapCreators # {})
    /\ (is_finalized /\ _is_map /\ IsRun(ArrayOf(tree))) =>
           (have_input_map <=>
               /\ ArrayOf(tree)[1] # 0
               /\ \E c \in children[tree] \cup
                           (IF parent[tree] = NoneStr THEN {}
                            ELSE children[parent[tree]] \ {tree}) :
                      /\ ~is_leaf(Store, c)
                      /\ ~ShiftedBy(ArrayOf(tree), ArrayOf(c),
                                    ArrayOf(c)[1] - ArrayOf(tree)[1]))

C7_Witness ==
    /\ is_finalized
    /\ _is_map
    /\ IsRun(ArrayOf(tree))
    /\ ArrayOf(tree)[1] # 0
    /\ have_input_map
    /\ ret.op = "finalize"

(* C8: an input map is a new root over arange(N), N the size of the base:  *)
(* the loop runs over 0..N-1 on the plain loop variable, the old base is   *)
(* the new root's child and is resolved as an offset of the loop variable  *)
(* or as a lookup in the base's table, and map_domain is the new root.     *)
C8_InputMapIsNewRoot ==
    (is_finalized /\ have_input_map) =>
        LET root == parent[tree]
            N == Len(ArrayOf(tree))
        IN  /\ root \in nodes \cap InputMapCreators
            /\ map_domain = root
            /\ domain_to_nodes[map_domain] = root
            /\ parent[root] = NoneStr
            /\ tree \in children[root]
            /\ ArrayOf(root) = np_arange(N)
            /\ iname_[root] = var_name
            /\ insn[root] = NoneStr
            /\ get_iname_domain(Store)
                   = <<var_name, "0 <= " \o var_name \o " <= " \o ToString(N - 1)>>
            /\ tree \in transformed_domains
            /\ \/ /\ IsRun(ArrayOf(tree))
                  /\ insn[tree] = NoneStr
                  /\ iname_[tree] = var_name \o " + " \o ToString(ArrayOf(tree)[1])
               \/ /\ ~IsRun(ArrayOf(tree))
                  /\ iname_[tree] \in taken_transform_names \ {var_name}
                  /\ insn[tree] = "<> " \o iname_[tree] \o " = " \o name[tree]
                                     \o "[" \o var_name \o "] {id=index_"
                                     \o iname_[tree] \o "}"

C8_Witness ==
    /\ is_finalized
    /\ have_input_map
    /\ ~IsRun(ArrayOf(tree))
    /\ children[parent[tree]] # {tree}

\* a leaf whose parent's index array equals the base's
UnderBase(v) ==
    /\ v \in nodes
    /\ is_leaf(Store, v)
    /\ initializer[parent[v]] = initializer[tree]

\* apply_maps has returned the access to an array under the base
AccessUnderBase ==
    /\ ret.op = "apply_maps"
    /\ ret.err = ""
    /\ ret.args[3] = None
    /\ UnderBase(ret.args[1])

\* "a <= i <= b"
RangeStr(a, b) ==
    <<var_name, ToString(a) \o " <= " \o var_name \o " <= " \o ToString(b)>>

C10_OutOfMaskIsRefused ==
    /\ []((knl_type = "mask" /\ pc # "new"
              /\ (OutOfMask(map_domain) \/ OutOfMask(mask_domain)))
          => (/\ pc = "failed"
              /\ ret.err = "AssertionError"
              /\ nodes = {}
              /\ DOMAIN domain_to_nodes = {}
              /\ transform_insns = {}))
    /\ [][(/\ knl_type = "mask"
           /\ ret'.op = "check_and_add_transform"
           /\ OutOfMask(ret'.args[2]))
          => (/\ ret'.err \in {"AssertionError", "Exception"}
              /\ ret'.err = "Exception" => is_finalized
              /\ UNCHANGED resolved
              /\ UNCHANGED is_finalized)]_vars

C10_Witness ==
    /\ knl_type = "mask"
    /\ ret.op = "check_and_add_transform"
    /\ OutOfMask(ret.args[2])
    /\ ret.err = "AssertionError"
    /\ nodes # {}

\* the registration of variable v with domain d trips no assertion: d is a
\* valid domain, and v has no node yet or is a child of d's node already
Registrable(v, d) ==
    /\ _check_is_valid_domain(Store, d)
    /\ IF d \in DOMAIN domain_to_nodes
       THEN v \notin DOMAIN domain_to_nodes \/ v \in children[domain_to_nodes[d]]
       ELSE v \notin DOMAIN domain_to_nodes /\ v # d

(* C11: check_and_add_transform on a finalized MapStore.  With             *)
(* raise_on_final it raises and leaves the tree, the index, the names, the *)
(* instructions and transformed_domains as they were.  Without it the call *)
(* does not raise for being late: a registration that trips no assertion   *)
(* puts the nodes of the domain and of the variable into the tree and the  *)
(* index.  is_finalized stays true either way.                             *)
C11_RegistrationAfterFinalize ==
    [][(is_finalized /\ ret'.op = "check_and_add_transform") =>
          /\ is_finalized'
          /\ raise_on_final => (ret'.err = "Exception" /\ UNCHANGED resolved)
          /\ ~raise_on_final =>
                 /\ ret'.err # "Exception"
                 /\ Registrable(ret'.args[1], ret'.args[2]) =>
                        /\ ret'.err = ""
                        /\ {ret'.args[1], ret'.args[2]} \subseteq nodes'
                        /\ {ret'.args[1], ret'.args[2]}
                               \subseteq DOMAIN domain_to_nodes'
                        /\ parent'[ret'.args[1]] = domain_to_nodes'[ret'.args[2]]
                        /\ nodes \subseteq nodes'
                        /\ transformed_domains' = transformed_domains]_vars

C11_Witness ==
    /\ is_finalized
    /\ ~raise_on_final
    /\ transformed_domains # {}
    /\ ret.op = "check_and_add_transform"
    /\ ret.err = ""
    /\ iname_[ret.args[1]] = NoneStr
    /\ iname_[ret.args[2]] = NoneStr

\* the fields of store s, in the order of resolved
Fields(s) ==
    <<s.name, s.initializer, s.map_domain, s.nodes, s.parent, s.children,
      s.iname_, s.insn, s.domain_transform_, s.domain_to_nodes,
      s.transformed_domains, s.taken_transform_names, s.have_input_map>>

(* C12: apply_maps on a MapStore that is not finalized leaves it as one    *)
(* call of finalize leaves it, is_finalized true; apply_maps on a          *)
(* finalized MapStore changes nothing of it: tree, names, instructions,    *)
(* transformed_domains, the index and the name generator stay as they are. *)
C12_ApplyMapsFinalizesOnce ==
    [][ret'.op = "apply_maps" =>
          /\ is_finalized'
          /\ is_finalized => UNCHANGED resolved
          /\ ~is_finalized =>
                 \E s \in finalize(Store) :
                     /\ s.err = ""
                     /\ s.is_finalized
                     /\ resolved' = Fields(s)]_vars

C12_Witness ==
    /\ ret.op = "apply_maps"
    /\ ret.err = ""
    /\ is_finalized
    /\ have_input_map
    /\ Cardinality(LookupNodes) >= 2
    /\ ret.val = "v2[j, i_2]"

\* the last call was apply_maps with no offset at all, and it returned
AccessWithoutOffset ==
    /\ ret.op = "apply_maps"
    /\ ret.err = ""
    /\ ret.args[3] = None
    /\ creator_affine(ret.args[1]) \in {None, Some(0)}

\* the name that stands for the loop variable in an access to array v
NameFor(v) ==
    IF v \notin nodes THEN iname_[tree]
    ELSE IF v = tree \/ children[v] = {} THEN iname_[v]
    ELSE iname_[parent[v]]

(* C13: apply_maps replaces every index that is the loop variable: by the  *)
(* node's own name when the array's node is a leaf or the original root,   *)
(* by the name of the node's parent when the node has children and is not  *)
(* the root, by the original root's name when the array has no node.       *)
(* Other indices are passed through.                                       *)
C13_LoopVariableSubstitution ==
    AccessWithoutOffset =>
        LET v == ret.args[1]
            inds == ret.args[2]
        IN  ret.val = name[v] \o "["
                \o JoinComma([k \in 1..Len(inds) |->
                                 IF inds[k] = var_name THEN NameFor(v)
                                 ELSE inds[k]])
                \o "]"

C13_Witness ==
    /\ AccessWithoutOffset
    /\ ret.args[1] \in nodes \ {tree}
    /\ children[ret.args[1]] # {}
    /\ iname_[ret.args[1]] # iname_[parent[ret.args[1]]]
    /\ insn[parent[ret.args[1]]] # NoneStr
    /\ ret.val = name[ret.args[1]] \o "[" \o iname_[parent[ret.args[1]]] \o "]"

\* node n is no leaf, and its array and its parent's differ in length
DiffersInLength(n) ==
    IsInner(n) /\ Len(ArrayOf(n)) # Len(ArrayOf(parent[n]))

(* C14: in map mode a node that is no leaf and whose array differs in      *)
(* length from its parent's is resolved by a lookup: an instruction with   *)
(* the node's array as table, a loop variable of its own, and no offset,   *)
(* also when the entries the arrays have in common differ by a constant.   *)
C14_LengthsDifferIsLookup ==
    (is_finalized /\ _is_map) =>
        \A n \in nodes :
            DiffersInLength(n) =>
                /\ n \in transformed_domains
                /\ domain_transform_[n] = Some(domain_transform(n, None))
                /\ iname_[n] \in taken_transform_names \ {var_name}
                /\ \A m \in nodes \ {n} :
                       iname_[m] = iname_[n] => (parent[m] = n /\ insn[m] = NoneStr)
                /\ insn[n] = "<> " \o iname_[n] \o " = " \o name[n] \o "["
                                 \o iname_[parent[n]] \o "] {id=index_"
                                 \o iname_[n] \o "}"
                /\ insn[n] \in transform_insns

C14_Witness ==
    /\ is_finalized
    /\ _is_map
    /\ \E n \in nodes :
           /\ DiffersInLength(n)
           /\ ArrayOf(n)[1] # ArrayOf(parent[n])[1]
           /\ Len(ArrayOf(n)) < Len(ArrayOf(parent[n]))
           /\ \A k \in 1..Len(ArrayOf(n)) :
                  ArrayOf(n)[k] - ArrayOf(parent[n])[k]
                      = ArrayOf(n)[1] - ArrayOf(parent[n])[1]

\* the mask of child is the mask of par with its entries moved by c slots:
\* as many entries, each c slots further, the same values in the same order
MaskShiftedBy(par, child, c) ==
    LET dset == np_where_set(par)
        nset == np_where_set(child)
    IN  /\ Len(dset) = Len(nset)
        /\ \A k \in 1..Len(nset) : nset[k] - dset[k] = c
        /\ \A k \in 1..Len(nset) : child[nset[k] + 1] = par[dset[k] + 1]

\* the slot of the first entry of child minus that of par
FirstShift(par, child) == np_where_set(child)[1] - np_where_set(par)[1]

(* C15: in mask mode a node that is no leaf and whose mask is not          *)
(* identical to its parent's is resolved as an offset c, with no           *)
(* instruction, when its mask is the parent's with the entries moved by c  *)
(* slots, and as a lookup in its own table in every other case.            *)
C15_MaskAffineOrLookup ==
    (is_finalized /\ ~_is_map) =>
        \A n \in nodes :
            (IsInner(n) /\ ArrayOf(n) # ArrayOf(parent[n])) =>
                LET c == FirstShift(ArrayOf(parent[n]), ArrayOf(n))
                IN  IF MaskShiftedBy(ArrayOf(parent[n]), ArrayOf(n), c)
                    THEN /\ domain_transform_[n] = Some(domain_transform(n, Some(c)))
                         /\ insn[n] = NoneStr
                         /\ iname_[n] = iname_[parent[n]] \o " + " \o ToString(c)
                         /\ \A i \in transform_insns : ~IsLookupIn(i, n)
                    ELSE /\ domain_transform_[n] = Some(domain_transform(n, None))
                         /\ insn[n] = "<> " \o iname_[n] \o " = " \o name[n] \o "["
                                          \o iname_[parent[n]] \o "] {id=index_"
                                          \o iname_[n] \o "}"
                         /\ insn[n] \in transform_insns

\* an offset that is there and is not 0
IsOffset(affine) == affine \notin {None, Some(0)}

(* C16: apply_maps with an offset in effect (the array's own, or an        *)
(* integer given by the caller, not 0) raises and returns nothing when it  *)
(* is given a number of indices other than one; it does not raise for      *)
(* this with one index, nor with a dict of offsets.                        *)
C16_OffsetNeedsOneIndex ==
    /\ ret.op = "apply_maps" =>
           /\ ret.err = "Exception" <=>
                  /\ IsOffset(creator_affine(ret.args[1])) \/ IsOffset(ret.args[3])
                  /\ Len(ret.args[2]) # 1
           /\ ret.err # "" => ret.val = ""
    /\ ret.op = "apply_maps_dict" => ret.err # "Exception"

C16_Witness ==
    /\ ret.op = "apply_maps"
    /\ ret.err = "Exception"
    /\ ret.val = ""
    /\ ret.args[1] = "v2"
    /\ ret.args[2] = <<"j", var_name>>
    /\ "v2" \in nodes

\* the value of an offset, 0 when there is none
OffsetOf(affine) == IF affine = None THEN 0 ELSE Val(affine)

\* apply_maps was called with one index and None or an integer, and returned
OneIndexAccess ==
    /\ ret.op = "apply_maps"
    /\ ret.err = ""
    /\ Len(ret.args[2]) = 1

\* the index of the last call after the substitution of the loop variable
SubstitutedIndex ==
    IF ret.args[2][1] = var_name THEN NameFor(ret.args[1]) ELSE ret.args[2][1]

(* C17: apply_maps with one index folds the sum a + b of the array's own   *)
(* offset a and the caller's integer b into the index: "+ (a + b)" when    *)
(* the sum is not negative, "- |a + b|" when it is; with one of the two it *)
(* folds that one; with neither the index has no offset.  An offset is     *)
(* there when it is not None and not 0.                                    *)
C17_OffsetsAdd ==
    OneIndexAccess =>
        LET a == creator_affine(ret.args[1])
            b == ret.args[3]
            sum == OffsetOf(a) + OffsetOf(b)
        IN  ret.val = name[ret.args[1]] \o "[" \o SubstitutedIndex
                \o (IF ~IsOffset(a) /\ ~IsOffset(b) THEN ""
                    ELSE IF sum >= 0 THEN " + " \o ToString(sum)
                    ELSE " - " \o ToString(-sum))
                \o "]"

C17_Witness ==
    /\ OneIndexAccess
    /\ IsOffset(creator_affine(ret.args[1]))
    /\ IsOffset(ret.args[3])
    /\ OffsetOf(creator_affine(ret.args[1])) + OffsetOf(ret.args[3]) < -1
    /\ have_input_map

\* the root of the whole tree: the input map's node when there is one
EffectiveRoot == IF parent[tree] = NoneStr THEN tree ELSE parent[tree]

(* C18: after finalize every node but the root of the whole tree has one   *)
(* parent and is one of that parent's children, the children of a node     *)
(* wrap creators that differ, and the index takes the creator of every     *)
(* node to that node.  A node is named by the creator it wraps: that no    *)
(* creator has two nodes is the index having a node's creator at itself.   *)
C18_TreeIsWellFormed ==
    is_finalized =>
        /\ EffectiveRoot \in nodes
        /\ parent[EffectiveRoot] = NoneStr
        /\ \A n \in nodes \ {EffectiveRoot} :
               /\ parent[n] \in nodes
               /\ n \in children[parent[n]]
               /\ {p \in nodes : n \in children[p]} = {parent[n]}
        /\ \A p \in nodes : \A c \in children[p] : c \in nodes /\ parent[c] = p
        /\ \A p \in nodes : \A c, e \in children[p] :
               node_domain(c) = node_domain(e) => c = e
        /\ \A n \in nodes :
               /\ node_domain(n) \in DOMAIN domain_to_nodes
               /\ domain_to_nodes[node_domain(n)] = n
        /\ \A d \in DOMAIN domain_to_nodes : domain_to_nodes[d] \in nodes

C18_Witness ==
    /\ is_finalized
    /\ have_input_map
    /\ Cardinality(children[EffectiveRoot]) >= 2
    /\ \E n \in nodes : parent[n] \notin {NoneStr, tree, EffectiveRoot}

\* variable v has a node, and it is not a child of the node of domain d
UnderAnotherDomain(v, d) ==
    /\ v \in nodes
    /\ d \notin DOMAIN domain_to_nodes \/ parent[v] # domain_to_nodes[d]

(* C19: the registration of a variable that has a node under the node of   *)
(* another domain raises the assertion of the duplicate domain, and leaves *)
(* the tree and the index as they were before the call: no node of the     *)
(* domain is left behind.                                                  *)
C19_FailedRegistrationChangesNothing ==
    [][(/\ ~is_finalized
        /\ ret'.op = "check_and_add_transform"
        /\ UnderAnotherDomain(ret'.args[1], ret'.args[2]))
       => (/\ ret'.err = "AssertionError"
           /\ UNCHANGED <<nodes, parent, children, domain_to_nodes>>)]_vars

(* C20: add_child(domain) on a node that has a child wrapping domain       *)
(* returns that child and changes neither the children nor the index; on   *)
(* any other node it makes one new child, whose parent is the node, and    *)
(* puts it into the children and the index.  The registration of a pair    *)
(* (variable, domain) a second time leaves the tree of the first.          *)
C20_AddChildIsIdempotent ==
    /\ \A self \in nodes : \A domain \in Creators \ InputMapCreators :
           LET r == add_child(Store, self, domain)
           IN  IF domain \in children[self]
               THEN r.child = domain /\ r.s = Store
               ELSE IF domain \in DOMAIN domain_to_nodes
               THEN r.s.err = "AssertionError" /\ Fields(r.s) = Fields(Store)
               ELSE /\ r.s.err = ""
                    /\ r.child = domain
                    /\ r.s.nodes = nodes \cup {domain}
                    /\ r.s.parent = [parent EXCEPT ![domain] = self]
                    /\ r.s.children =
                           [children EXCEPT ![self] = @ \cup {domain},
                                            ![domain] = {}]
                    /\ r.s.domain_to_nodes = Put(domain_to_nodes, domain, domain)
                    /\ add_child(r.s, self, domain) = [s |-> r.s, child |-> domain]
    /\ (ret.op = "check_and_add_transform" /\ ret.err = "") =>
           check_and_add_transform(Store, ret.args[1], ret.args[2]) = Store

C20_Witness ==
    /\ ret.op = "check_and_add_transform"
    /\ ret.err = ""
    /\ ret.args = <<"v2", "v1">>
    /\ parent["v1"] = "d1"
    /\ children["v1"] = {"v2"}

\* the calls on a clone
CloneOps ==
    {"clone.check_and_add_transform", "clone.finalize", "clone.map_domain.name",
     "clone.apply_maps"}

\* the original: everything but the clone and the last call
Original == <<pc, knl_type, raise_on_final, mask_domain, tree, resolved, is_finalized>>

\* C21: MapStore.copy() and creator.copy() return deep, independent clones.
\* copy() hands back a store equal to the original's and leaves the original
\* alone; a call on the clone (registration, finalize, apply_maps, a
\* descriptor renamed and its initializer replaced) changes nothing of the
\* original; a call on the original changes nothing of the clone; and no
\* call, input-map synthesis included, changes the name or the initializer of
\* a descriptor that was there before it: the input map is a copy.
C21_CopiesAreIndependent ==
    [][/\ ret'.op = "copy" =>
              (UNCHANGED Original /\ clone' # None /\ Val(clone').s = Store
                  /\ Val(clone').aliased = {})
       /\ ret'.op \in CloneOps => UNCHANGED Original
       /\ ret'.op \notin CloneOps \cup {"copy"} => UNCHANGED clone
       /\ ret'.op \in {"finalize", "check_and_add_transform"} =>
              \A c \in Creators \ InputMapCreators :
                  name'[c] = name[c] /\ initializer'[c] = initializer[c]
       /\ (ret'.op \in {"clone.finalize", "clone.check_and_add_transform"}
              /\ clone # None) =>
              \A c \in Creators \ InputMapCreators :
                  /\ Val(clone').s.name[c] = Val(clone).s.name[c]
                  /\ Val(clone').s.initializer[c] = Val(clone).s.initializer[c]
      ]_vars

\* C21 witness: the clone took a registration the original does not have
\* and was finalized with an input map, and the original is none of that
C21_Witness ==
    /\ clone # None
    /\ LET c == Val(clone).s
       IN  /\ c.is_finalized /\ ~is_finalized
           /\ c.have_input_map /\ ~have_input_map
           /\ c.map_domain = "base_map" /\ map_domain = "base"
           /\ c.name["base"] = "base" /\ c.name["base_map"] = "base_map"
           /\ "v1" \in c.nodes /\ "v1" \notin nodes
           /\ ret.op = "clone.finalize"

\* C30: after clone = resolver.copy(), apply_maps on the clone for a
\* descriptor registered with the original returns the access expression
\* that apply_maps on the original returns: while the clone is as copy()
\* returned it, a call of the clone's apply_maps that is handed the
\* original's descriptor answers as the original does.
C30_CloneFindsSameNode ==
    [][(/\ ret'.op = "clone.apply_maps"
        /\ ret'.err = ""
        /\ ~ret'.args[2]
        /\ ret'.args[1] \in DOMAIN domain_to_nodes
        /\ is_finalized
        /\ clone' = Some(MapStore_copy(Store)))
          => ret'.val = apply_maps(Store, ret'.args[1], <<var_name>>, None).val
      ]_vars

\* the clone's own copy of the descriptor is found in the clone's index
C30_OwnCopyFindsSameNode ==
    [][(/\ ret'.op = "clone.apply_maps"
        /\ ret'.err = ""
        /\ ret'.args[2]
        /\ is_finalized
        /\ clone' = Some(MapStore_copy(Store)))
          => ret'.val = apply_maps(Store, ret'.args[1], <<var_name>>, None).val
      ]_vars

\* a call of the sparse jac in C order that looks up: the row, the column
SparseRowMajorCall ==
    /\ ret.op = "jac_creator.__call__"
    /\ ret.args.order = "C"
    /\ ret.args.is_sparse
    /\ ~ret.args.ignore_lookups
    /\ ret.err = ""

RowOf(indicies) == indicies[Len(indicies) - 1]

ColOf(indicies) == indicies[Len(indicies)]

\* the text of row + 1
RowPlusOne(row) ==
    IF row.int THEN ToString(row.n + 1) ELSE py_str(row) \o " + 1"

\* C22: for a sparse jac_creator in C order, a literal row of 0 or 1 gives
\* the plain column as lookup, with no call of the lookup routine; a row >= 2
\* or a symbolic row gives a call of the lookup routine from row_ptr[row] to
\* row_ptr[row + 1]; either way the offset is row_ptr[row] and the second
\* index that is rendered is offset + lookup.
C22_SparseRowLookup ==
    SparseRowMajorCall =>
        LET row == RowOf(ret.args.indicies)
            col == ColOf(ret.args.indicies)
            offset == "jac_row_ptr[" \o py_str(row) \o "]"
            plain == py_int(row) # None /\ Val(py_int(row)) \in {0, 1}
            lookup == IF plain THEN py_str(col)
                      ELSE jac_indirect_lookup_name \o "(jac_row_ptr["
                               \o py_str(row) \o "], jac_row_ptr["
                               \o RowPlusOne(row) \o "], " \o py_str(col) \o ")"
        IN  IF ret.args.plain_index
            THEN ret.val = <<1, offset \o " + " \o lookup, offset, lookup>>
            ELSE ret.val = "jac[" \o py_str(ret.args.indicies[1]) \o ", "
                               \o offset \o " + " \o lookup \o "]"

\* C22 witness: row 1 without the routine, as text and as the tuple of
\* plain_index; C22_WitnessCall is row 2, with the routine
C22_Witness ==
    /\ SparseRowMajorCall
    /\ RowOf(ret.args.indicies) = IntIndex(1)
    /\ ColOf(ret.args.indicies) = StrIndex("col")
    /\ ~ret.args.plain_index
    /\ ret.val = "jac[j, jac_row_ptr[1] + col]"

C22_WitnessCall ==
    /\ SparseRowMajorCall
    /\ RowOf(ret.args.indicies) = IntIndex(2)
    /\ ret.args.plain_index
    /\ ret.val = <<1, "jac_row_ptr[2] + jac_indirect(jac_row_ptr[2], jac_row_ptr[3], col)",
                   "jac_row_ptr[2]",
                   "jac_indirect(jac_row_ptr[2], jac_row_ptr[3], col)">>

\* the axes of a call of arr that have no pin, counted from 1
Unpinned(fixed_indicies) ==
    (1..3) \ {fixed_indicies[k][1] + 1 : k \in 1..Len(fixed_indicies)}

\* the value axis i is pinned to: that of the last pin of i
PinOf(fixed_indicies, i) ==
    LET k == CHOOSE k \in 1..Len(fixed_indicies) :
                 /\ fixed_indicies[k][1] + 1 = i
                 /\ \A m \in 1..Len(fixed_indicies) :
                        fixed_indicies[m][1] + 1 = i => m <= k
    IN  fixed_indicies[k][2]

\* C23: indexing a descriptor expands its pins into the full tuple, the
\* axes without a pin filled in increasing order with the indicies supplied;
\* if the number of indicies supplied is not the number of axes without a pin
\* (the rank, without pins), the call fails and renders nothing.
C23_PinsExpandOrFail ==
    ret.op = "creator.__call__" =>
        LET pins == ret.args.fixed_indicies
            supplied == ret.args.indicies
            free == Unpinned(pins)
            nth(i) == Cardinality({e \in free : e <= i})
            full == [i \in 1..3 |-> IF i \in free THEN py_str(supplied[nth(i)])
                                    ELSE py_str(PinOf(pins, i))]
        IN  /\ Len(supplied) # Cardinality(free) =>
                   (ret.err # "" /\ ret.val = "")
            /\ (/\ Len(supplied) = Cardinality(free)
                /\ \A k \in 1..Len(pins) : pins[k][1] \in 0..2
                /\ ~ret.args.private) =>
                   (/\ ret.err = ""
                    /\ ret.val = "arr[" \o full[1] \o ", " \o full[2] \o ", "
                                     \o full[3] \o "]")

\* C23 witness: one pin in the middle and two indicies; C23_WitnessFails is
\* three indicies with the same pin
C23_Witness ==
    /\ ret.op = "creator.__call__"
    /\ ret.args.fixed_indicies = <<<<1, StrIndex("k")>>>>
    /\ ret.args.indicies = <<global_ind, StrIndex("i")>>
    /\ ~ret.args.private
    /\ ret.val = "arr[j, k, i]"

C23_WitnessFails ==
    /\ ret.op = "creator.__call__"
    /\ ret.args.fixed_indicies = <<<<1, StrIndex("k")>>>>
    /\ Len(ret.args.indicies) = 3
    /\ ret.err = "AssertionError"

\* a call that synthesizes the input map
AddsInputMap == ret'.op \in {"finalize", "apply_maps"} /\ ~have_input_map /\ have_input_map'

\* child c of the old root is moved to the new root / is left where it is
Reparented(c) ==
    /\ parent'[c] = parent'[tree]
    /\ c \notin children'[tree]
    /\ c \in children'[parent'[tree]]

LeftUnderOldRoot(c) ==
    /\ parent'[c] = tree
    /\ c \in children'[tree]
    /\ c \notin children'[parent'[tree]]

\* the array of c is the new root's 0..N-1 / is that array shifted by a
\* constant, which finalize folds into the name without a lookup
EqualsNewRoot(c) == ArrayOf(c) = np_arange(Len(ArrayOf(tree)))

AffineToNewRoot(c) ==
    \E k \in (-(MaxStart + DomLen))..(MaxStart + DomLen) :
        ShiftedBy(np_arange(Len(ArrayOf(tree))), ArrayOf(c), k)

\* C24 as made: when the input map is synthesized, every child of the old
\* root that is no leaf and can reach the new 0..N-1 root without a lookup
\* (its array is 0..N-1, or 0..N-1 shifted by a constant) is re-parented to
\* the new root, and every other child stays under the old root.
C24_NoLookupIsReparented ==
    [][AddsInputMap =>
           \A c \in children[tree] :
               IF children[c] # {} /\ AffineToNewRoot(c)
               THEN Reparented(c) ELSE LeftUnderOldRoot(c)]_vars

\* C24 amended: when the input map is synthesized, every child of the old
\* root that is no leaf and whose array is equal to the new root's 0..N-1 is
\* re-parented to the new root (out of the old root's children, into the new
\* root's, its parent the new root), and every other child, one that is
\* 0..N-1 shifted by a constant included, stays under the old root.
C24_EqualIsReparented ==
    [][AddsInputMap =>
           \A c \in children[tree] :
               IF children[c] # {} /\ EqualsNewRoot(c)
               THEN Reparented(c) ELSE LeftUnderOldRoot(c)]_vars

\* C24 witness: an input map, one child moved to the new root and another
\* that is a domain left under the old root
C24_Witness ==
    /\ have_input_map
    /\ \E c \in children[parent[tree]] \ {tree} : EqualsNewRoot(c)
    /\ \E c \in children[tree] : children[c] # {} /\ ~EqualsNewRoot(c)

\* the nodes whose offset against the parent finalize folded into the name
FoldedNodes ==
    {n \in nodes : /\ insn[n] = NoneStr
                   /\ domain_transform_[n] # None
                   /\ Val(domain_transform_[n]).affine # None}

\* C25 as made: after finalize, transformed_domains holds exactly the nodes
\* that resolving against the parent gave a lookup instruction; the nodes
\* resolved by identity, the leaves and the nodes whose offset is folded into
\* the name are not in it.
C25_TransformedAreLookups ==
    is_finalized => transformed_domains = LookupNodes

\* C25 amended: after finalize, transformed_domains holds exactly the nodes
\* that resolving against the parent gave a transform, be it a lookup
\* instruction or an offset folded into the name; the nodes resolved by
\* identity and the leaves are not in it, and the nodes with a lookup are
\* those of its nodes that have an instruction.
C25_TransformedHaveTransform ==
    is_finalized =>
        /\ transformed_domains = LookupNodes \cup FoldedNodes
        /\ \A n \in nodes :
               (is_leaf(Store, n) \/ domain_transform_[n] = None
                    \/ parent[n] = NoneStr)
                   => n \notin transformed_domains
        /\ transform_insns = {insn[n] : n \in LookupNodes}

\* C25 witness: after finalize, a node with a lookup, a node with a folded
\* offset, a node resolved by identity and a leaf
C25_Witness ==
    /\ is_finalized
    /\ LookupNodes # {}
    /\ \E n \in FoldedNodes : n \in transformed_domains /\ iname_[n] = "i + 1"
    /\ \E n \in nodes : IsInner(n) /\ domain_transform_[n] = None
    /\ \E n \in nodes : is_leaf(Store, n)

\* C26: finalize resolves a node after its parent.  The assertion that the
\* parent has an iname never fails: finalize returns without an error.  And
\* once finalize has returned, every node of the tree, the root included,
\* has a name that is not None; a node without a transform of its own has
\* the name its parent ended with, and a lookup instruction reads the name
\* its parent ended with.
C26_ResolvedAfterParent ==
    /\ ret.op = "finalize" => (ret.err = "" /\ is_finalized)
    /\ (ret.op = "apply_maps" /\ ret.err # "") => is_finalized
    /\ is_finalized =>
           \A n \in nodes :
               /\ iname_[n] \notin {NoneStr, ""}
               /\ (parent[n] # NoneStr /\ domain_transform_[n] = None)
                      => iname_[n] = iname_[parent[n]]
               /\ insn[n] # NoneStr
                      => insn[n] = generate_transform_instruction(
                                       iname_[parent[n]], iname_[n], name[n], None)

\* C26 witness: finalize has returned on a tree with an input map, where a
\* lookup reads the name that another lookup assigns, and a leaf below it
C26_Witness ==
    /\ ret.op = "finalize"
    /\ is_finalized
    /\ \E n \in LookupNodes :
           /\ parent[n] \in LookupNodes
           /\ parent[parent[n]] # NoneStr
           /\ iname_[parent[parent[n]]] = var_name
           /\ \E v \in children[n] : is_leaf(Store, v) /\ iname_[v] = iname_[n]

\* C27: a node without children that is not the root, be it a registered
\* variable with an initializer that differs from its parent's domain, is
\* never given a transform: after finalize its name is its parent's, its
\* instruction and its domain_transform are None and it is not in
\* transformed_domains.
C27_LeavesHaveNoTransform ==
    is_finalized =>
        \A n \in nodes :
            (children[n] = {} /\ n # tree /\ parent[n] # NoneStr) =>
                /\ iname_[n] = iname_[parent[n]]
                /\ insn[n] = NoneStr
                /\ domain_transform_[n] = None
                /\ n \notin transformed_domains

\* C27 witness: after finalize, a leaf whose initializer is another array
\* than its parent's, under a parent that has a lookup
C27_Witness ==
    /\ is_finalized
    /\ \E n \in nodes :
           /\ children[n] = {} /\ n # tree /\ parent[n] # NoneStr
           /\ initializer[n] # None
           /\ initializer[n] # initializer[parent[n]]
           /\ insn[parent[n]] # NoneStr
           /\ iname_[n] = iname_[parent[n]]

\* the text of index x with offset c: c is folded in unless it is 0
WithOffset(x, c) ==
    IF c = 0 THEN x
    ELSE IF c > 0 THEN x \o " + " \o ToString(c)
    ELSE x \o " - " \o ToString(-c)

\* C28: when apply_maps is called with a dict of offsets that has the loop
\* variable as a key, that offset is added at the position where the loop
\* variable was supplied, whatever name the position is substituted with
\* (the node's own, its parent's, the input map's); it is never dropped.
\* Stated for arrays without an offset of their own.
C28_KeyedOffsetFollowsSubstitution ==
    (/\ ret.op = "apply_maps_dict"
     /\ ret.err = ""
     /\ var_name \in DOMAIN ret.args[3]
     /\ creator_affine(ret.args[1]) = None) =>
        LET v == ret.args[1]
            inds == ret.args[2]
            d == ret.args[3]
            text(k) ==
                IF inds[k] = var_name THEN WithOffset(NameFor(v), d[var_name])
                ELSE IF inds[k] \in DOMAIN d THEN WithOffset(inds[k], d[inds[k]])
                ELSE inds[k]
        IN  ret.val = name[v] \o "["
                \o JoinComma([k \in 1..Len(inds) |-> text(k)]) \o "]"

\* what the code does: the offset is looked up under the name the position
\* has after the substitution, and the key of the loop variable is moved to
\* that name only for the root under an input map
C28_KeyedByNameAfterSubstitution ==
    (/\ ret.op = "apply_maps_dict"
     /\ ret.err = ""
     /\ var_name \in DOMAIN ret.args[3]
     /\ creator_affine(ret.args[1]) = None) =>
        LET v == ret.args[1]
            inds == ret.args[2]
            d == ret.args[3]
            rooted == (v \notin nodes \/ v = tree) /\ have_input_map
            text(k) ==
                IF inds[k] = var_name
                THEN IF rooted \/ NameFor(v) = var_name
                     THEN WithOffset(NameFor(v), d[var_name])
                     ELSE NameFor(v)
                ELSE IF inds[k] \in DOMAIN d /\ ~(rooted /\ inds[k] = var_name)
                THEN WithOffset(inds[k], d[inds[k]])
                ELSE inds[k]
        IN  ret.val = name[v] \o "["
                \o JoinComma([k \in 1..Len(inds) |-> text(k)]) \o "]"

\* the offsets and the index values there can be
OffsetRange == (-(MaxStart + DomLen))..(MaxStart + DomLen)

IndexValues == (-(MaxStart + 2 * DomLen))..(MaxStart + 2 * DomLen)

\* What the resolved name of node d stands for when the loop variable is i,
\* read off the text: the loop variable itself is i, "i + c" is i + c, and a
\* name that d's instruction assigns from a[i] is the entry of array a at i.
Denoted(d, i) ==
    {v \in IndexValues :
        \/ iname_[d] = var_name /\ insn[d] = NoneStr /\ v = i
        \/ /\ insn[d] = NoneStr
           /\ \E c \in OffsetRange :
                  iname_[d] = var_name \o " + " \o ToString(c) /\ v = i + c
        \/ \E a \in Creators :
               /\ initializer[a] # None
               /\ insn[d] = "<> " \o iname_[d] \o " = " \o name[a] \o "["
                                \o var_name \o "] {id=index_" \o iname_[d] \o "}"
               /\ iname_[d] \notin {NoneStr, var_name}
               /\ (i + 1) \in DOMAIN ArrayOf(a)
               /\ v = ArrayOf(a)[i + 1]}

\* the domains C29 is about: map mode, the base is 0..N-1, d is registered
\* directly under the root, is no leaf and has N entries
UnderDenseRoot(d) ==
    /\ is_finalized
    /\ _is_map
    /\ ArrayOf(tree) = np_arange(DomLen)
    /\ d \in children[tree]
    /\ children[d] # {}
    /\ Len(ArrayOf(d)) = DomLen

\* C29: in map mode with base 0..N-1, for every domain d of N entries that
\* is registered directly under the root and is no leaf, and every loop
\* value i of 0..N-1, the index that d's resolved name stands for (i for
\* identity, i + c for an offset, the value its lookup assigns otherwise) is
\* d[i]; an array registered under d has d's name, so it is accessed at d[i].
C29_NameDenotesDomainEntry ==
    \A d \in nodes :
        UnderDenseRoot(d) =>
            /\ \A i \in 0..(DomLen - 1) : Denoted(d, i) = {ArrayOf(d)[i + 1]}
            /\ \A v \in children[d] : children[v] = {} => iname_[v] = iname_[d]
            /\ (/\ ret.op = "apply_maps" /\ ret.err = ""
                /\ ret.args[1] \in children[d]
                /\ children[ret.args[1]] = {}
                /\ ret.args[2] = <<var_name>>)
                   => ret.val = name[ret.args[1]] \o "[" \o iname_[d] \o "]"

\* C29 witness: a domain with a lookup and an array under it that was
\* accessed; C29_WitnessOffset: a domain with an offset
C29_Witness ==
    \E d \in nodes :
        /\ UnderDenseRoot(d)
        /\ insn[d] # NoneStr
        /\ ArrayOf(d) = Gap(0)
        /\ ret.op = "apply_maps" /\ ret.err = ""
        /\ ret.args[1] \in children[d]
        /\ ret.args[2] = <<var_name>>

C29_WitnessOffset ==
    \E d \in nodes :
        /\ UnderDenseRoot(d)
        /\ ArrayOf(d) = Run(MaxStart, DomLen)
        /\ Denoted(d, 0) = {MaxStart}

====
